---- MODULE Spec2Model ----
(***************************************************************************)
(* Model of the jet-cone / underlying-event geometry and pt-unfolding core *)
(* of PWGLF/Tasks/Nuspex/antinucleiInJets.cxx (struct AntinucleiInJets).   *)
(*                                                                         *)
(* Angles live on a grid of AngleRes steps per half turn.  Momenta are     *)
(* integers; the doubles computed from them are kept exactly, as elements  *)
(* (r + s*sqrt(d))/q of a quadratic field, with NaN as a separate value.   *)
(***************************************************************************)
EXTENDS Integers, Sequences, FiniteSets, TLC

VARIABLES
  fn,              \* name of the member function the task is executing / has executed
  args,            \* its arguments
  ret,             \* its return value
  pc,              \* "ready" before the call, "done" after it
  jetAxis,         \* the local TVector3 jetAxis of the jet loop
  ueAxis1,         \* the local TVector3 ueAxis1, output of getPerpendicularAxis(.., +1)
  ueAxis2,         \* the local TVector3 ueAxis2, output of getPerpendicularAxis(.., -1)
  branch,          \* the branch the last getPerpendicularAxis call took
  log,             \* number of diagnostics emitted so far, per severity
  diag,            \* severity of the diagnostic the last call emitted, "none" if silent
  status,          \* "running", or "aborted" once the process was terminated
  responseMatrix,  \* the member TH2F* responseMatrix
  rngDraws,        \* number of samples drawn from the random generator
  rhoPerp,         \* the local rhoPerp of a process function, set before its jet loop
  rhoMPerp,        \* the local rhoMPerp of a process function
  coneRadius,      \* the local coneRadius of the jet loop
  nParticlesPerp,  \* the local nParticlesPerp of the jet loop of processQC
  gen,             \* the state of the random generators of each run of the program
  units,           \* where each processing unit of each run stands in a draw
  registryData,    \* the bins of number_of_events_data
  tracks,          \* the track collection handed to the process function
  fjParticles,     \* the local fjParticles of the process function
  jets,            \* the local jets, as returned by the clustering
  jetIndex,        \* the position of the jet loop in jets
  isAtLeastOneJetSelected,
  fills,           \* the passes through the filling loops made for the event
  trace,           \* what the jet loop did with the jet it handled last
  collisions,      \* the collisions handed to processJetsMCrec in one call
  collisionIndex,  \* the position of its loop over the collisions
  processed,       \* the collisions whose body ran past the event selection
  responseFills,   \* the fills of detectorResponseMatrix, by jet and x value
  lookups          \* the calls of getCorrectedPt, by jet and ptRec

\* the locals of the event a process function is working on
eventVars == <<rhoPerp, rhoMPerp, coneRadius, nParticlesPerp>>

\* the generators and the units that draw from them
rngVars == <<gen, units>>

\* the event a process function works on
dataVars == <<registryData, tracks, fjParticles, jets, jetIndex, isAtLeastOneJetSelected,
              fills, trace>>

\* the call of processJetsMCrec
batchVars == <<collisions, collisionIndex, processed, responseFills, lookups>>

vars == <<fn, args, ret, pc, jetAxis, ueAxis1, ueAxis2, branch, log, diag, status,
          responseMatrix, rngDraws, eventVars, rngVars, dataVars, batchVars>>

(***************************************************************************)
(* Bounds                                                                  *)
(***************************************************************************)
AngleRes == 8      \* grid steps per half turn
AngleTurns == 2    \* input angles range over +/- AngleTurns full turns
MaxP == 5          \* momentum components range over -MaxP..MaxP
MaxLog == 2        \* diagnostics counted per severity
MaxDraws == 1      \* random samples counted
MaxEntries == 2    \* entries filled into a response matrix
NbinsX == 2        \* bins of the reconstructed-pt axis of a response matrix
NbinsY == 2        \* bins of the offset axis of a response matrix
XBinWidth == 2     \* grid steps per bin of the reconstructed-pt axis
YBinWidth == 2     \* grid steps per bin of the offset axis
PtMargin == 1      \* reconstructed pt ranges this far beyond both ends of the axis
MaxArea == 1       \* jet areas range over 0..MaxArea
MaxRho == 1        \* background densities range over 0..MaxRho
MaxEta == 1        \* pseudorapidities of tracks range over -MaxEta..MaxEta
MaxRadius == 1     \* cone radii range over 0..MaxRadius
GenStates == 3     \* states of a random generator
MaxEvents == 2     \* events, collisions or draws of one run
MaxPercent == 9    \* rejectionPercentage ranges over 0..MaxPercent

(***************************************************************************)
(* Integer helpers.  The arithmetic below is written as functions: a       *)
(* function is applied to the values of its arguments.                     *)
(***************************************************************************)
Abs(n) == IF n < 0 THEN -n ELSE n

Gcd[m \in Int, n \in Int] == IF n = 0 THEN Abs(m) ELSE Gcd[n, m % Abs(n)]

\* smallest k with k*k >= n
CeilSqrt[n \in Nat] == CHOOSE k \in 0..n : k * k >= n

\* largest k with k*k dividing n (n >= 1)
SquarePart[n \in Nat] ==
  LET top == CeilSqrt[n]
  IN CHOOSE k \in 1..top :
       /\ n % (k * k) = 0
       /\ \A j \in (k + 1)..top : n % (j * j) # 0

(***************************************************************************)
(* double values: (r + s*sqrt(d))/q with d square-free, or NaN             *)
(***************************************************************************)
Double == [nan : BOOLEAN, r : Int, s : Int, d : Int, q : Int]

NaN == [nan |-> TRUE, r |-> 0, s |-> 0, d |-> 0, q |-> 1]

\* lowest terms, positive denominator, d = 0 when there is no irrational part
\* (sqrt(1) is folded into the rational part)
Num[r \in Int, s \in Int, d \in Int, q \in Int] ==
  LET r0 == IF d = 1 THEN r + s ELSE r
      s0 == IF d = 0 \/ d = 1 THEN 0 ELSE s
      g  == Gcd[Gcd[r0, s0], q]
      sg == IF q < 0 THEN -1 ELSE 1
      s1 == (sg * s0) \div g
  IN [nan |-> FALSE, r |-> (sg * r0) \div g, s |-> s1,
      d |-> IF s1 = 0 THEN 0 ELSE d, q |-> (sg * q) \div g]

D[n \in Int] == Num[n, 0, 0, 1]

Rad[x \in Double, y \in Double] == IF x.s # 0 THEN x.d ELSE y.d

Add[x \in Double, y \in Double] ==
  IF x.nan \/ y.nan THEN NaN
  ELSE Num[x.r * y.q + y.r * x.q, x.s * y.q + y.s * x.q, Rad[x, y], x.q * y.q]

Neg[x \in Double] == IF x.nan THEN NaN ELSE Num[-x.r, -x.s, x.d, x.q]

Sub[x \in Double, y \in Double] == Add[x, Neg[y]]

Mul[x \in Double, y \in Double] ==
  IF x.nan \/ y.nan THEN NaN
  ELSE Num[x.r * y.r + x.s * y.s * Rad[x, y], x.r * y.s + x.s * y.r,
           Rad[x, y], x.q * y.q]

\* x / y for a rational y # 0 (every division of the code has such a divisor)
Div[x \in Double, y \in Double] ==
  IF x.nan \/ y.nan \/ y.r = 0 THEN NaN
  ELSE Num[x.r * y.q, x.s * y.q, x.d, x.q * y.r]

\* std::sqrt of a rational: NaN for a negative argument
Sqrt[x \in Double] ==
  IF x.nan \/ x.r < 0 THEN NaN
  ELSE IF x.r = 0 THEN D[0]
  ELSE LET k == SquarePart[x.r * x.q]
       IN Num[0, k, (x.r * x.q) \div (k * k), x.q]

\* comparisons of doubles: every comparison with NaN is false
Eq[x \in Double, y \in Double] == ~x.nan /\ ~y.nan /\ x = y

IsNeg[x \in Double] == ~x.nan /\ x.s = 0 /\ x.r < 0

Sgn(n) == IF n > 0 THEN 1 ELSE IF n < 0 THEN -1 ELSE 0

\* the sign of a double that is not NaN
SignOf(x) ==
  IF x.s = 0 THEN Sgn(x.r)
  ELSE IF x.r = 0 THEN Sgn(x.s)
  ELSE IF Sgn(x.r) = Sgn(x.s) THEN Sgn(x.r)
  ELSE IF x.r * x.r > x.s * x.s * x.d THEN Sgn(x.r)
  ELSE Sgn(x.s)

\* x > y on doubles
Gt[x \in Double, y \in Double] == ~x.nan /\ ~y.nan /\ SignOf(Sub[x, y]) = 1

(***************************************************************************)
(* AngularMetric                                                           *)
(***************************************************************************)
PI == AngleRes
TwoPI == 2 * AngleRes

Angles == (0 - AngleTurns * TwoPI)..(AngleTurns * TwoPI)

\* TVector2::Phi_0_2pi: the two while loops
RECURSIVE Phi_0_2pi(_)
Phi_0_2pi(x) == IF x >= TwoPI THEN Phi_0_2pi(x - TwoPI)
                ELSE IF x < 0 THEN Phi_0_2pi(x + TwoPI)
                ELSE x

\* getDeltaPhi without the std::fabs of line 349
getDeltaPhiNoFabs(a1, a2) ==
  LET diff == Phi_0_2pi(a1) - Phi_0_2pi(a2)
      d1   == IF diff <= PI THEN diff ELSE 0
  IN IF diff > PI THEN TwoPI - diff ELSE d1

\* getDeltaPhi without the reflection of line 354
getDeltaPhiNoWrap(a1, a2) == Abs(Phi_0_2pi(a1) - Phi_0_2pi(a2))

getDeltaPhi(a1, a2) ==
  LET phi1 == Phi_0_2pi(a1)
      phi2 == Phi_0_2pi(a2)
      diff == Abs(phi1 - phi2)
      d1   == IF diff <= PI THEN diff ELSE 0
  IN IF diff > PI THEN TwoPI - diff ELSE d1

(***************************************************************************)
(* Diagnostics: LOGP(severity, ...) counts the message; severity "fatal"   *)
(* terminates the process, every other severity returns to the caller.     *)
(***************************************************************************)
Severities == {"info", "warn", "error", "fatal"}

NoLog == [sev \in Severities |-> 0]

LOGP(l, severity) == [l EXCEPT ![severity] = @ + 1]

StatusAfter(st, severity) == IF severity = "fatal" THEN "aborted" ELSE st

(***************************************************************************)
(* PerpendicularAxisSolver                                                 *)
(***************************************************************************)
Coord == (0 - MaxP)..MaxP

\* a TVector3 by components
Vec(x, y, z) == [x |-> x, y |-> y, z |-> z]

\* the jet axes handed in: integer momentum components
Momenta == {Vec(x, y, z) : x \in Coord, y \in Coord, z \in Coord}

Signs == {1, -1}

\* u.SetXYZ(0, 0, 0)
ZeroVec == Vec(D[0], D[0], D[0])

\* the both-zero branch setting uz = pz as every other branch does
axisBothZeroKeepsPz(p, sign) == [u |-> Vec(D[0], D[0], D[p.z]), level |-> "none"]

\* lines 304-308: px and py are both zero
axisBothZero(p, sign) == [u |-> ZeroVec, level |-> "none"]

\* "protection 1" with the minus sign of uy left out
axisPxZeroNoMinus(p, sign) ==
  LET py  == D[p.y]
      pz  == D[p.z]
      py2 == Mul[py, py]
      pz2 == Mul[pz, pz]
      pz4 == Mul[pz2, pz2]
      ux  == Mul[D[sign], Sqrt[Sub[py2, Div[pz4, py2]]]]
      uy  == Div[pz2, py]
  IN [u |-> Vec(ux, uy, pz), level |-> "none"]

\* lines 310-316: "protection 1", px == 0 && py != 0
axisPxZero(p, sign) ==
  LET py  == D[p.y]
      pz  == D[p.z]
      py2 == Mul[py, py]
      pz2 == Mul[pz, pz]
      pz4 == Mul[pz2, pz2]
      ux  == Mul[D[sign], Sqrt[Sub[py2, Div[pz4, py2]]]]
      uy  == Div[Neg[pz2], py]
  IN [u |-> Vec(ux, uy, pz), level |-> "none"]

\* "protection 2" written as a copy of "protection 1" with only py replaced by px
axisPyZeroUnmirrored(p, sign) ==
  LET px  == D[p.x]
      pz  == D[p.z]
      px2 == Mul[px, px]
      pz2 == Mul[pz, pz]
      pz4 == Mul[pz2, pz2]
      ux  == Mul[D[sign], Sqrt[Sub[px2, Div[pz4, px2]]]]
      uy  == Div[Neg[pz2], px]
  IN [u |-> Vec(ux, uy, pz), level |-> "none"]

\* lines 318-324: "protection 2", py == 0 && px != 0
axisPyZero(p, sign) ==
  LET px  == D[p.x]
      pz  == D[p.z]
      px2 == Mul[px, px]
      pz2 == Mul[pz, pz]
      pz4 == Mul[pz2, pz2]
      ux  == Div[Neg[pz2], px]
      uy  == Mul[D[sign], Sqrt[Sub[px2, Div[pz4, px2]]]]
  IN [u |-> Vec(ux, uy, pz), level |-> "none"]

\* lines 327-331: coefficients and discriminant of the quadratic in ux
quadA(p) == Add[Mul[D[p.x], D[p.x]], Mul[D[p.y], D[p.y]]]

quadB(p) == Mul[Mul[D[2], D[p.x]], Mul[D[p.z], D[p.z]]]

\* line 329 without its last term
quadCShort(p) ==
  LET py2 == Mul[D[p.y], D[p.y]]
      pz2 == Mul[D[p.z], D[p.z]]
      pz4 == Mul[pz2, pz2]
  IN Sub[pz4, Mul[py2, py2]]

quadC(p) ==
  LET px2 == Mul[D[p.x], D[p.x]]
      py2 == Mul[D[p.y], D[p.y]]
      pz2 == Mul[D[p.z], D[p.z]]
      pz4 == Mul[pz2, pz2]
  IN Sub[Sub[pz4, Mul[py2, py2]], Mul[px2, py2]]

quadDelta(p) == Sub[Mul[quadB(p), quadB(p)], Mul[Mul[D[4], quadA(p)], quadC(p)]]

\* line 333: delta < 0 || a == 0
invalidQuadratic(p) == IsNeg[quadDelta(p)] \/ Eq[quadA(p), D[0]]

\* the invalid general case reported with the terminating severity
invalidAxisLevelFatal == "fatal"

\* line 334: the severity of the diagnostic of the invalid general case
invalidAxisLevel == "warn"

\* the general case taking the same root for both signs
generalUxOneRoot(p, sign) ==
  Div[Add[Neg[quadB(p)], Sqrt[quadDelta(p)]], Mul[D[2], quadA(p)]]

\* lines 339-341: the solution of the general case
generalUx(p, sign) ==
  Div[Add[Neg[quadB(p)], Mul[D[sign], Sqrt[quadDelta(p)]]], Mul[D[2], quadA(p)]]

\* line 340 with the sign of the px * ux term slipped
generalUySignSlip(p, ux) ==
  Div[Add[Neg[Mul[D[p.z], D[p.z]]], Mul[D[p.x], ux]], D[p.y]]

generalUy(p, ux) ==
  Div[Sub[Neg[Mul[D[p.z], D[p.z]]], Mul[D[p.x], ux]], D[p.y]]

\* lines 326-341: general case
axisGeneral(p, sign) ==
  IF invalidQuadratic(p)
  THEN [u |-> ZeroVec, level |-> invalidAxisLevel]
  ELSE LET ux == generalUx(p, sign)
       IN [u |-> Vec(ux, generalUy(p, ux), D[p.z]), level |-> "none"]

\* lines 304-326: which branch handles p, in the order the tests are written
axisBranch(p) ==
  IF p.x = 0 /\ p.y = 0 THEN "bothZero"
  ELSE IF p.x = 0 /\ p.y # 0 THEN "pxZero"
  ELSE IF p.y = 0 /\ p.x # 0 THEN "pyZero"
  ELSE "general"

\* the whole function: the vector written to u and the diagnostic emitted
getPerpendicularAxis(p, sign) ==
  CASE axisBranch(p) = "bothZero" -> axisBothZero(p, sign)
    [] axisBranch(p) = "pxZero"   -> axisPxZero(p, sign)
    [] axisBranch(p) = "pyZero"   -> axisPyZero(p, sign)
    [] OTHER                      -> axisGeneral(p, sign)

(***************************************************************************)
(* PtUnfolder: the response matrix (a TH2) and getCorrectedPt              *)
(***************************************************************************)
\* line 270: the reconstructed-pt axis starts at 0, the offset axis is symmetric
XMin == 0

XMax == XMin + NbinsX * XBinWidth

YMin == 0 - ((NbinsY * YBinWidth) \div 2)

\* a histogram: content[bx][by], bx in 1..NbinsX, by in 0..NbinsY+1 (0 underflow,
\* NbinsY+1 overflow); the columns bx = 0 and NbinsX+1 are never read
EmptyMatrix == [bx \in 1..NbinsX |-> [by \in 0..(NbinsY + 1) |-> 0]]

\* TH2::Fill into one cell
Fill(h, bx, by) == [h EXCEPT ![bx][by] = @ + 1]

\* the bins that are filled in the histograms looked at: the first and the last
\* bin of each axis; the bins between them stay empty
EdgeBinsX == {1, NbinsX}

EdgeBinsY == {1, NbinsY}

RECURSIVE MatricesWith(_)
MatricesWith(n) ==
  IF n = 0 THEN {EmptyMatrix}
  ELSE LET prev == MatricesWith(n - 1)
       IN prev \cup {Fill(h, bx, by) : h \in prev, bx \in EdgeBinsX,
                                       by \in {0, NbinsY + 1} \cup EdgeBinsY}

\* the histograms the calibration store can hold
Matrices == MatricesWith(MaxEntries)

\* the values of a TH2F*: null, the address of a histogram, or never assigned
NullPtr == [kind |-> "null", h |-> EmptyMatrix]

PtrTo(h) == [kind |-> "object", h |-> h]

WildPtr == [kind |-> "indeterminate", h |-> EmptyMatrix]

\* the outcomes of fetching the histogram from the calibration store
Fetched == {PtrTo(h) : h \in Matrices} \cup {NullPtr}

PtValues == (XMin - PtMargin)..(XMax + PtMargin)

\* a bin search that clamps to the first and last bin of the axis
FindBinClamped(x) ==
  IF x < XMin THEN 1
  ELSE IF ~(x < XMax) THEN NbinsX
  ELSE 1 + ((NbinsX * (x - XMin)) \div (XMax - XMin))

\* TAxis::FindBin on the x axis: 0 is underflow, NbinsX+1 overflow
FindBin(x) ==
  IF x < XMin THEN 0
  ELSE IF ~(x < XMax) THEN NbinsX + 1
  ELSE 1 + ((NbinsX * (x - XMin)) \div (XMax - XMin))

\* line 461: binX < 1 || binX > GetNbinsX()
binOutOfRange(binX) == binX < 1 \/ binX > NbinsX

RECURSIVE SumColumns(_, _, _)
SumColumns(h, by, bx) == IF bx = 0 THEN 0 ELSE h[bx][by] + SumColumns(h, by, bx - 1)

\* a projection taken over every x bin instead of the bin of the input
ProjectionYAllBins(h, binX) == [by \in 0..(NbinsY + 1) |-> SumColumns(h, by, NbinsX)]

\* line 465: TH2::ProjectionY("proj", binX, binX), all y bins of one x bin
ProjectionY(h, binX) == h[binX]

RECURSIVE SumBins(_, _, _)
SumBins(proj, lo, hi) == IF lo > hi THEN 0 ELSE proj[lo] + SumBins(proj, lo + 1, hi)

\* TH1::GetEntries of a projection: the summed content, under- and overflow included
GetEntries(proj) == SumBins(proj, 0, NbinsY + 1)

\* TH1::ComputeIntegral: the content of the bins 1..NbinsY
Integral(proj) == SumBins(proj, 1, NbinsY)

GetBinLowEdge(by) == YMin + (by - 1) * YBinWidth

\* TH1::GetRandom: 0 without a draw when the integral is 0, else a point of a bin
\* with content, found with one draw from the generator
GetRandom(proj) ==
  IF Integral(proj) = 0 THEN {[x |-> 0, draws |-> 0]}
  ELSE {[x |-> GetBinLowEdge(by) + k, draws |-> 1] :
          by \in {b \in 1..NbinsY : proj[b] > 0}, k \in 0..(YBinWidth - 1)}

\* the null response matrix reported with the terminating severity
nullMatrixLevelFatal == "fatal"

\* lines 456, 462: the severity of the two diagnostics of getCorrectedPt
nullMatrixLevel == "error"

outOfRangeLevel == "error"

\* lines 453-476: every outcome of getCorrectedPt(ptRec, rm) for a null or valid rm
getCorrectedPt(ptRec, rm) ==
  IF rm.kind = "null"
  THEN {[ret |-> ptRec, level |-> nullMatrixLevel, draws |-> 0]}
  ELSE LET binX == FindBin(ptRec)
       IN IF binOutOfRange(binX)
          THEN {[ret |-> ptRec, level |-> outOfRangeLevel, draws |-> 0]}
          ELSE LET proj == ProjectionY(rm.h, binX)
               IN IF GetEntries(proj) = 0
                  THEN {[ret |-> ptRec, level |-> "none", draws |-> 0]}
                  ELSE {[ret |-> ptRec + g.x, level |-> "none", draws |-> g.draws] :
                          g \in GetRandom(proj)}

(***************************************************************************)
(* The task object and its callers                                         *)
(***************************************************************************)
NoRet == "void"

NoArgs == [none |-> TRUE]

\* a local vector that is out of scope
NoVec == "unset"

\* a local density that is out of scope
NoRho == "unset"

\* a local radius that is out of scope
NoRadius == "unset"

\* the generators and units of a program that is not looked at
NoGenerators == "unset"

NoUnits == "unset"

\* the counters of an empty registry
NoEvents == <<0, 0, 0, 0>>

NoFills == [jet |-> 0, ue |-> 0]

NoTrace == [jet |-> 0, steps |-> << >>, draws |-> 0, corrected |-> << >>, looked |-> {}]

\* processJetsMCrec has not been called
NoBatch ==
  /\ collisions = << >>
  /\ collisionIndex = 0
  /\ processed = {}
  /\ responseFills = {}
  /\ lookups = {}

\* no event is being worked on
NoEvent ==
  /\ registryData = NoEvents
  /\ tracks = << >>
  /\ fjParticles = << >>
  /\ jets = << >>
  /\ jetIndex = 0
  /\ isAtLeastOneJetSelected = FALSE
  /\ fills = NoFills
  /\ trace = NoTrace

\* a caller evaluates getDeltaPhi on the pair of angles drawn by the initial state
CallGetDeltaPhi ==
  /\ pc = "ready"
  /\ fn = "getDeltaPhi"
  /\ status = "running"
  /\ ret' = getDeltaPhi(args.a1, args.a2)
  /\ pc' = "done"
  /\ UNCHANGED <<fn, args, jetAxis, ueAxis1, ueAxis2, branch, log, diag, status,
                 responseMatrix, rngDraws>>
  /\ UNCHANGED eventVars
  /\ UNCHANGED rngVars
  /\ UNCHANGED dataVars
  /\ UNCHANGED batchVars

\* lines 594-596: TVector3 jetAxis(jet.px(), jet.py(), jet.pz()), ueAxis1(0,0,0), ueAxis2(0,0,0)
SetJetAxis(p) ==
  /\ pc = "jet"
  /\ status = "running"
  /\ jetAxis' = p
  /\ ueAxis1' = ZeroVec
  /\ ueAxis2' = ZeroVec
  /\ branch' = "none"
  /\ diag' = "none"
  /\ pc' = "axis1"
  /\ UNCHANGED <<fn, args, ret, log, status, responseMatrix, rngDraws>>
  /\ UNCHANGED eventVars
  /\ UNCHANGED rngVars
  /\ UNCHANGED dataVars
  /\ UNCHANGED batchVars

\* line 597: getPerpendicularAxis(jetAxis, ueAxis1, +1)
SolveAxis1 ==
  /\ pc = "axis1"
  /\ status = "running"
  /\ \E res \in {getPerpendicularAxis(jetAxis, 1)} :
     /\ res.level # "none" => log[res.level] < MaxLog
     /\ ueAxis1' = res.u
     /\ branch' = axisBranch(jetAxis)
     /\ diag' = res.level
     /\ log' = IF res.level = "none" THEN log ELSE LOGP(log, res.level)
     /\ status' = StatusAfter(status, res.level)
     /\ pc' = "axis2"
     /\ UNCHANGED <<fn, args, ret, jetAxis, ueAxis2, responseMatrix, rngDraws>>
  /\ UNCHANGED eventVars
  /\ UNCHANGED rngVars
  /\ UNCHANGED dataVars
  /\ UNCHANGED batchVars

\* line 598: getPerpendicularAxis(jetAxis, ueAxis2, -1)
SolveAxis2 ==
  /\ pc = "axis2"
  /\ status = "running"
  /\ \E res \in {getPerpendicularAxis(jetAxis, -1)} :
     /\ res.level # "none" => log[res.level] < MaxLog
     /\ ueAxis2' = res.u
     /\ branch' = axisBranch(jetAxis)
     /\ diag' = res.level
     /\ log' = IF res.level = "none" THEN log ELSE LOGP(log, res.level)
     /\ status' = StatusAfter(status, res.level)
     /\ pc' = "cones"
     /\ UNCHANGED <<fn, args, ret, jetAxis, ueAxis1, responseMatrix, rngDraws>>
  /\ UNCHANGED eventVars
  /\ UNCHANGED rngVars
  /\ UNCHANGED dataVars
  /\ UNCHANGED batchVars

\* line 766: the iteration of the jet loop ends, its locals go out of scope
EndJet ==
  /\ pc = "cones"
  /\ status = "running"
  /\ jetAxis' = NoVec
  /\ ueAxis1' = NoVec
  /\ ueAxis2' = NoVec
  /\ branch' = "none"
  /\ diag' = "none"
  /\ pc' = "jet"
  /\ UNCHANGED <<fn, args, ret, log, status, responseMatrix, rngDraws>>
  /\ UNCHANGED eventVars
  /\ UNCHANGED rngVars
  /\ UNCHANGED dataVars
  /\ UNCHANGED batchVars

\* lines 155-159 with 478-492: init() fetches the response matrix, or clears the
\* pointer when unfolding is off; a failed fetch returns without assigning it
TaskInit(applyPtUnfolding, fetched) ==
  /\ pc = "constructed"
  /\ status = "running"
  /\ responseMatrix' = IF ~applyPtUnfolding THEN NullPtr
                       ELSE IF fetched.kind = "null" THEN responseMatrix
                       ELSE fetched
  /\ diag' = IF applyPtUnfolding
             THEN (IF fetched.kind = "null" THEN "error" ELSE "info")
             ELSE "none"
  /\ log' = IF applyPtUnfolding
            THEN LOGP(log, IF fetched.kind = "null" THEN "error" ELSE "info")
            ELSE log
  /\ fn' = "init"
  /\ args' = [applyPtUnfolding |-> applyPtUnfolding, fetched |-> fetched.kind]
  /\ pc' = "ready"
  /\ UNCHANGED <<ret, jetAxis, ueAxis1, ueAxis2, branch, status, rngDraws>>
  /\ UNCHANGED eventVars
  /\ UNCHANGED rngVars
  /\ UNCHANGED dataVars
  /\ UNCHANGED batchVars

\* line 588: a jet loop evaluates getCorrectedPt(ptRec, responseMatrix)
CallGetCorrectedPt(ptRec) ==
  /\ pc = "ready"
  /\ status = "running"
  /\ responseMatrix.kind # "indeterminate"
  /\ \E o \in getCorrectedPt(ptRec, responseMatrix) :
       /\ o.level # "none" => log[o.level] < MaxLog
       /\ rngDraws + o.draws <= MaxDraws
       /\ fn' = "getCorrectedPt"
       /\ args' = [ptRec |-> ptRec]
       /\ ret' = o.ret
       /\ diag' = o.level
       /\ log' = IF o.level = "none" THEN log ELSE LOGP(log, o.level)
       /\ status' = StatusAfter(status, o.level)
       /\ rngDraws' = rngDraws + o.draws
  /\ UNCHANGED <<pc, jetAxis, ueAxis1, ueAxis2, branch, responseMatrix>>
  /\ UNCHANGED eventVars
  /\ UNCHANGED rngVars
  /\ UNCHANGED dataVars
  /\ UNCHANGED batchVars

\* line 460 on a pointer that was never assigned: the dereference either faults
\* or reads arbitrary memory as a histogram
CallGetCorrectedPtWild(ptRec) ==
  /\ pc = "ready"
  /\ status = "running"
  /\ responseMatrix.kind = "indeterminate"
  /\ fn' = "getCorrectedPt"
  /\ args' = [ptRec |-> ptRec]
  /\ \E crash \in BOOLEAN, v \in PtValues :
       /\ status' = IF crash THEN "aborted" ELSE status
       /\ ret' = IF crash THEN NoRet ELSE v
  /\ diag' = "none"
  /\ UNCHANGED <<pc, jetAxis, ueAxis1, ueAxis2, branch, log, responseMatrix, rngDraws>>
  /\ UNCHANGED eventVars
  /\ UNCHANGED rngVars
  /\ UNCHANGED dataVars
  /\ UNCHANGED batchVars

InitDeltaPhi ==
  /\ fn = "getDeltaPhi"
  /\ args \in [a1 : Angles, a2 : Angles]
  /\ ret = NoRet
  /\ pc = "ready"
  /\ jetAxis = NoVec
  /\ ueAxis1 = NoVec
  /\ ueAxis2 = NoVec
  /\ branch = "none"
  /\ log = NoLog
  /\ diag = "none"
  /\ status = "running"
  /\ responseMatrix = NullPtr
  /\ rngDraws = 0
  /\ rhoPerp = NoRho
  /\ rhoMPerp = NoRho
  /\ coneRadius = NoRadius
  /\ nParticlesPerp = 0
  /\ gen = NoGenerators
  /\ units = NoUnits
  /\ NoEvent
  /\ NoBatch

NextDeltaPhi == CallGetDeltaPhi

SpecDeltaPhi == InitDeltaPhi /\ [][NextDeltaPhi]_vars

InitAxis ==
  /\ fn = "getPerpendicularAxis"
  /\ args = NoArgs
  /\ ret = NoRet
  /\ pc = "jet"
  /\ jetAxis = NoVec
  /\ ueAxis1 = NoVec
  /\ ueAxis2 = NoVec
  /\ branch = "none"
  /\ log = NoLog
  /\ diag = "none"
  /\ status = "running"
  /\ responseMatrix = NullPtr
  /\ rngDraws = 0
  /\ rhoPerp = NoRho
  /\ rhoMPerp = NoRho
  /\ coneRadius = NoRadius
  /\ nParticlesPerp = 0
  /\ gen = NoGenerators
  /\ units = NoUnits
  /\ NoEvent
  /\ NoBatch

NextAxis ==
  \/ \E p \in Momenta : SetJetAxis(p)
  \/ SolveAxis1
  \/ SolveAxis2
  \/ EndJet

SpecAxis == InitAxis /\ [][NextAxis]_vars

\* line 133: TH2F* responseMatrix has no initializer; the task object holds a null
\* pointer when it was value-initialized and an indeterminate one otherwise
InitUnfold ==
  /\ fn = "init"
  /\ args = NoArgs
  /\ ret = NoRet
  /\ pc = "constructed"
  /\ jetAxis = NoVec
  /\ ueAxis1 = NoVec
  /\ ueAxis2 = NoVec
  /\ branch = "none"
  /\ log = NoLog
  /\ diag = "none"
  /\ status = "running"
  /\ responseMatrix \in {NullPtr, WildPtr}
  /\ rngDraws = 0
  /\ rhoPerp = NoRho
  /\ rhoMPerp = NoRho
  /\ coneRadius = NoRadius
  /\ nParticlesPerp = 0
  /\ gen = NoGenerators
  /\ units = NoUnits
  /\ NoEvent
  /\ NoBatch

NextUnfold ==
  \/ /\ pc = "constructed"
     /\ \E on \in BOOLEAN, fetched \in Fetched : TaskInit(on, fetched)
  \/ \E ptRec \in PtValues : CallGetCorrectedPt(ptRec)
  \/ \E ptRec \in PtValues : CallGetCorrectedPtWild(ptRec)

SpecUnfold == InitUnfold /\ [][NextUnfold]_vars

(***************************************************************************)
(* The jet loop of the process functions.  Transverse momenta are counted  *)
(* in steps of 5 GeV/c, areas in steps of 0.5 and densities in steps of    *)
(* 10 GeV/c per unit area, so that area * density is a number of pt steps. *)
(***************************************************************************)
\* line 89: minJetPt, 10 GeV/c
minJetPt == 2

\* the process functions that run a jet loop
Variants == {"processData", "processQC", "processJetsMCgen", "processJetsMCrec",
             "processSystematicsData"}

\* a clustered jet inside the acceptance, by its raw pt and its area
Jets == [pt : 0..(XMax + PtMargin), area : 0..MaxArea]

\* the values estimateRhoPerpCone can return for rhoPerp
Densities == 0..MaxRho

\* the values it can return for rhoMPerp, which the pt of a jet does not depend on
MassDensities == 0..1

\* JetBkgSubUtils::doRhoAreaSub, the pt of the jet it returns
doRhoAreaSub(jet, rhoParam, rhoMParam) == jet.pt - jet.area * rhoParam

\* the subtraction called with the two densities interchanged
jetMinusBkgPtSwapped(jet, rho, rhoM) == doRhoAreaSub(jet, rhoM, rho)

\* lines 586-587: jetForSub = jet; jetMinusBkg = doRhoAreaSub(jetForSub, rhoPerp, rhoMPerp)
jetMinusBkgPt(jet, rho, rhoM) == doRhoAreaSub(jet, rho, rhoM)

\* only processData mapping the subtracted pt through the response matrix
appliesUnfoldingDataOnly(variant) == variant = "processData"

\* lines 588, 820, 1181, 1356 call getCorrectedPt; line 1071 compares jetMinusBkg.pt()
appliesUnfolding(variant) == variant # "processJetsMCgen"

\* the left-hand side of the comparison with minJetPt, with the diagnostics and
\* draws its evaluation causes
thresholdPt(variant, ptSub, rm) ==
  IF appliesUnfolding(variant)
  THEN getCorrectedPt(ptSub, rm)
  ELSE {[ret |-> ptSub, level |-> "none", draws |-> 0]}

\* lines 571-575: a process function has clustered the event and estimated the
\* background densities
BeginEvent(variant, rho, rhoM) ==
  /\ pc = "idle"
  /\ status = "running"
  /\ fn' = variant
  /\ args' = NoArgs
  /\ ret' = NoRet
  /\ rhoPerp' = rho
  /\ rhoMPerp' = rhoM
  /\ diag' = "none"
  /\ pc' = "jetLoop"
  /\ UNCHANGED <<jetAxis, ueAxis1, ueAxis2, branch, log, status, responseMatrix, rngDraws,
                 coneRadius, nParticlesPerp>>
  /\ UNCHANGED rngVars
  /\ UNCHANGED dataVars
  /\ UNCHANGED batchVars

\* the densities are estimated again for every jet
SelectJetReestimating(jet) ==
  /\ pc = "jetLoop"
  /\ status = "running"
  /\ \E ptSub \in {jetMinusBkgPt(jet, rhoPerp, rhoMPerp)} :
     \E o \in thresholdPt(fn, ptSub, responseMatrix) :
       /\ o.level # "none" => log[o.level] < MaxLog
       /\ rngDraws + o.draws <= MaxDraws
       /\ args' = jet
       /\ ret' = [ptSub |-> ptSub, pt |-> o.ret, selected |-> ~(o.ret < minJetPt)]
       /\ diag' = o.level
       /\ log' = IF o.level = "none" THEN log ELSE LOGP(log, o.level)
       /\ status' = StatusAfter(status, o.level)
       /\ rngDraws' = rngDraws + o.draws
  /\ \E rho \in Densities : rhoPerp' = rho
  /\ UNCHANGED <<fn, pc, jetAxis, ueAxis1, ueAxis2, branch, responseMatrix, rhoMPerp,
                 coneRadius, nParticlesPerp>>
  /\ UNCHANGED rngVars
  /\ UNCHANGED dataVars
  /\ UNCHANGED batchVars

\* lines 585-589: one jet of the loop is background-subtracted and compared with
\* minJetPt
SelectJet(jet) ==
  /\ pc = "jetLoop"
  /\ status = "running"
  /\ \E ptSub \in {jetMinusBkgPt(jet, rhoPerp, rhoMPerp)} :
     \E o \in thresholdPt(fn, ptSub, responseMatrix) :
       /\ o.level # "none" => log[o.level] < MaxLog
       /\ rngDraws + o.draws <= MaxDraws
       /\ args' = jet
       /\ ret' = [ptSub |-> ptSub, pt |-> o.ret, selected |-> ~(o.ret < minJetPt)]
       /\ diag' = o.level
       /\ log' = IF o.level = "none" THEN log ELSE LOGP(log, o.level)
       /\ status' = StatusAfter(status, o.level)
       /\ rngDraws' = rngDraws + o.draws
  /\ UNCHANGED <<fn, pc, jetAxis, ueAxis1, ueAxis2, branch, responseMatrix, eventVars>>
  /\ UNCHANGED rngVars
  /\ UNCHANGED dataVars
  /\ UNCHANGED batchVars

\* the jet loop ends and the process function returns
EndEvent ==
  /\ pc = "jetLoop"
  /\ status = "running"
  /\ args' = NoArgs
  /\ ret' = NoRet
  /\ rhoPerp' = NoRho
  /\ rhoMPerp' = NoRho
  /\ diag' = "none"
  /\ pc' = "idle"
  /\ UNCHANGED <<fn, jetAxis, ueAxis1, ueAxis2, branch, log, status, responseMatrix, rngDraws,
                 coneRadius, nParticlesPerp>>
  /\ UNCHANGED rngVars
  /\ UNCHANGED dataVars
  /\ UNCHANGED batchVars

\* the task after an init() that assigned responseMatrix (lines 156-158): null
\* with unfolding off, else the histogram fetched, here with one entry
InitJets ==
  /\ fn = "init"
  /\ args = NoArgs
  /\ ret = NoRet
  /\ pc = "idle"
  /\ jetAxis = NoVec
  /\ ueAxis1 = NoVec
  /\ ueAxis2 = NoVec
  /\ branch = "none"
  /\ log = NoLog
  /\ diag = "none"
  /\ status = "running"
  /\ responseMatrix \in
       {NullPtr} \cup {PtrTo(Fill(EmptyMatrix, bx, by)) : bx \in EdgeBinsX, by \in EdgeBinsY}
  /\ rngDraws = 0
  /\ rhoPerp = NoRho
  /\ rhoMPerp = NoRho
  /\ coneRadius = NoRadius
  /\ nParticlesPerp = 0
  /\ gen = NoGenerators
  /\ units = NoUnits
  /\ NoEvent
  /\ NoBatch

NextJets ==
  \/ \E variant \in Variants, rho \in Densities, rhoM \in MassDensities :
       BeginEvent(variant, rho, rhoM)
  \/ \E jet \in Jets : SelectJet(jet)
  \/ EndEvent

SpecJets == InitJets /\ [][NextJets]_vars

(***************************************************************************)
(* The underlying-event loop of a selected jet (processQC, lines 828-873). *)
(* In this loop ueAxis1 and ueAxis2 are kept by what the loop reads of     *)
(* them, Eta() and Phi(), on the grids of pseudorapidity and angle.        *)
(***************************************************************************)
\* TVector3::Eta() of a vector with z # 0 whose transverse part is zero or NaN:
\* the library returns +/-10e10, a value beyond every track
etaAtZeroPt == 50

\* a selected track by track.eta() and track.phi(), phi in [0, 2pi)
Tracks == [eta : (0 - MaxEta)..MaxEta, phi : 0..(TwoPI - 1)]

\* Eta() and Phi() of an axis; Phi() is NaN when a transverse component is NaN
Direction(eta, phi, nanPhi) == [eta |-> eta, phi |-> phi, nanPhi |-> nanPhi]

\* the two axes getPerpendicularAxis returns for one jet have the same z and the
\* same transverse length, hence the same Eta(), taken as the origin of the
\* pseudorapidity grid; Phi() lies in (-pi, pi]; both have a NaN component when
\* the radicand of lines 313, 322 is negative
AxisPairs ==
  {<<Direction(0, f1, FALSE), Direction(0, f2, FALSE)>> :
     f1 \in (1 - PI)..PI, f2 \in (1 - PI)..PI}
  \cup {<<Direction(e, 0, TRUE), Direction(e, 0, TRUE)>> :
          e \in {0 - etaAtZeroPt, etaAtZeroPt}}

Radii == 0..MaxRadius

\* lines 853, 856: getDeltaPhi(track.phi(), ueAxis.Phi()); with a NaN argument
\* both comparisons of getDeltaPhi fail and its initial value 0 is returned
deltaPhiUe(track, axis) ==
  IF axis.nanPhi THEN 0 ELSE getDeltaPhi(track.phi, axis.phi)

\* lines 852-857: the distance of a track to an axis
deltaRUe(track, axis) ==
  LET deltaEta == track.eta - axis.eta
      deltaPhi == deltaPhiUe(track, axis)
  IN Sqrt[D[deltaEta * deltaEta + deltaPhi * deltaPhi]]

\* the test of line 858 written with >= in the place of >
outsideBothConesOrOnEdge(d1, d2, radius) == ~Gt[D[radius], d1] /\ ~Gt[D[radius], d2]

\* line 858: deltaRUe1 > coneRadius && deltaRUe2 > coneRadius
outsideBothCones(d1, d2, radius) == Gt[d1, D[radius]] /\ Gt[d2, D[radius]]

\* lines 828-833, 847-848: a selected jet enters its underlying-event loop
EnterCones(axes, radius) ==
  /\ pc = "jet"
  /\ status = "running"
  /\ ueAxis1' = axes[1]
  /\ ueAxis2' = axes[2]
  /\ coneRadius' = radius
  /\ nParticlesPerp' = 0
  /\ args' = NoArgs
  /\ ret' = NoRet
  /\ pc' = "ueLoop"
  /\ UNCHANGED <<fn, jetAxis, branch, log, diag, status, responseMatrix, rngDraws,
                 rhoPerp, rhoMPerp>>
  /\ UNCHANGED rngVars
  /\ UNCHANGED dataVars
  /\ UNCHANGED batchVars

\* lines 849-866: one iteration of the loop, for a track that passed the selection
UeTrack(track) ==
  /\ pc = "ueLoop"
  /\ status = "running"
  /\ \E d1 \in {deltaRUe(track, ueAxis1)}, d2 \in {deltaRUe(track, ueAxis2)} :
       /\ args' = track
       /\ ret' = [deltaRUe1 |-> d1, deltaRUe2 |-> d2]
       /\ nParticlesPerp' = IF outsideBothCones(d1, d2, coneRadius)
                            THEN nParticlesPerp
                            ELSE nParticlesPerp + 1
  /\ pc' = "ueDone"
  /\ UNCHANGED <<fn, jetAxis, ueAxis1, ueAxis2, branch, log, diag, status,
                 responseMatrix, rngDraws, rhoPerp, rhoMPerp, coneRadius>>
  /\ UNCHANGED rngVars
  /\ UNCHANGED dataVars
  /\ UNCHANGED batchVars

\* lines 871-874: the loop is over, the sums are filled, the locals go out of scope
EndUe ==
  /\ pc \in {"ueLoop", "ueDone"}
  /\ status = "running"
  /\ ueAxis1' = NoVec
  /\ ueAxis2' = NoVec
  /\ coneRadius' = NoRadius
  /\ nParticlesPerp' = 0
  /\ args' = NoArgs
  /\ ret' = NoRet
  /\ pc' = "jet"
  /\ UNCHANGED <<fn, jetAxis, branch, log, diag, status, responseMatrix, rngDraws,
                 rhoPerp, rhoMPerp>>
  /\ UNCHANGED rngVars
  /\ UNCHANGED dataVars
  /\ UNCHANGED batchVars

InitCones ==
  /\ fn = "processQC"
  /\ args = NoArgs
  /\ ret = NoRet
  /\ pc = "jet"
  /\ jetAxis = NoVec
  /\ ueAxis1 = NoVec
  /\ ueAxis2 = NoVec
  /\ branch = "none"
  /\ log = NoLog
  /\ diag = "none"
  /\ status = "running"
  /\ responseMatrix = NullPtr
  /\ rngDraws = 0
  /\ rhoPerp = NoRho
  /\ rhoMPerp = NoRho
  /\ coneRadius = NoRadius
  /\ nParticlesPerp = 0
  /\ gen = NoGenerators
  /\ units = NoUnits
  /\ NoEvent
  /\ NoBatch

NextCones ==
  \/ \E axes \in AxisPairs, radius \in Radii : EnterCones(axes, radius)
  \/ \E track \in Tracks : UeTrack(track)
  \/ EndUe

SpecCones == InitCones /\ [][NextCones]_vars

(***************************************************************************)
(* The random generators.  A run of the program has two of them: the       *)
(* function-local static std::mt19937 gen of shouldRejectEvent (line 518), *)
(* seeded from std::random_device on the first call, and ROOT's gRandom,   *)
(* from which TH1::GetRandom draws (line 472).  A generator is a state     *)
(* machine with GenStates states; a draw reads the state, steps it and     *)
(* writes it back.                                                         *)
(***************************************************************************)
\* line 98: rejectionPercentage
rejectionPercentage == 3

Runs == {1, 2}

Generators == {"gen", "gRandom"}

\* the process functions that call shouldRejectEvent (lines 534, 1304) and
\* getCorrectedPt (lines 588, 1356)
Units == {"processData", "processSystematicsData"}

\* line 518: the static generator before the first call of shouldRejectEvent
Unseeded == 0 - 1

\* the values std::random_device can hand to the constructor of gen
Seeds == 0..(GenStates - 1)

\* the state the default-constructed gRandom starts in
DefaultSeed == 0

\* the step of a generator
advance(s) == (s + 1) % GenStates

\* line 519-520: dis(gen), a number in 0..99 computed from the state
randomNumber(s) == (100 * s) \div GenStates

\* line 519: std::uniform_int_distribution<> dis(0, 99)
DrawValues == 0..99

\* the values the Configurable rejectionPercentage is set to
Percentages == 0..MaxPercent

\* lines 521-524: the event is accepted when randomNumber > rejectionPercentage
shouldRejectEvent(number, percentage) == ~(number > percentage)

Idle == [pc |-> "idle", g |-> "gen", seen |-> 0]

\* no call of shouldRejectEvent has returned yet
NoDecision == [randomNumber |-> 0 - 1, rejected |-> FALSE]

\* a unit enters a draw: the static generator is constructed on its first use,
\* then the unit reads the state
DrawBegin(r, u, g) ==
  /\ pc = "rng"
  /\ units[r][u].pc = "idle"
  /\ Len(ret[r]) < MaxEvents
  /\ \E s \in (IF gen[r][g] = Unseeded THEN Seeds ELSE {gen[r][g]}) :
       /\ gen' = [gen EXCEPT ![r][g] = s]
       /\ units' = [units EXCEPT ![r][u] = [pc |-> "drawing", g |-> g, seen |-> s]]
  /\ UNCHANGED <<fn, args, ret, pc, jetAxis, ueAxis1, ueAxis2, branch, log, diag, status,
                 responseMatrix, rngDraws, eventVars>>
  /\ UNCHANGED dataVars
  /\ UNCHANGED batchVars

\* the unit leaves the draw: it writes the stepped state back and uses the number
DrawEnd(r, u) ==
  /\ pc = "rng"
  /\ units[r][u].pc = "drawing"
  /\ Len(ret[r]) < MaxEvents
  /\ gen' = [gen EXCEPT ![r][units[r][u].g] = advance(units[r][u].seen)]
  /\ units' = [units EXCEPT ![r][u] = Idle]
  /\ ret' = [ret EXCEPT ![r] =
               Append(@, [unit |-> u, g |-> units[r][u].g,
                          number |-> randomNumber(units[r][u].seen),
                          rejected |-> shouldRejectEvent(randomNumber(units[r][u].seen),
                                                         rejectionPercentage)])]
  /\ args' = [run |-> r, unit |-> u]
  /\ UNCHANGED <<fn, pc, jetAxis, ueAxis1, ueAxis2, branch, log, diag, status,
                 responseMatrix, rngDraws, eventVars>>
  /\ UNCHANGED dataVars
  /\ UNCHANGED batchVars

\* the runs of the program before their first draw
InitRng ==
  /\ fn = "shouldRejectEvent"
  /\ args = NoArgs
  /\ ret = [r \in Runs |-> << >>]
  /\ pc = "rng"
  /\ jetAxis = NoVec
  /\ ueAxis1 = NoVec
  /\ ueAxis2 = NoVec
  /\ branch = "none"
  /\ log = NoLog
  /\ diag = "none"
  /\ status = "running"
  /\ responseMatrix = NullPtr
  /\ rngDraws = 0
  /\ rhoPerp = NoRho
  /\ rhoMPerp = NoRho
  /\ coneRadius = NoRadius
  /\ nParticlesPerp = 0
  /\ gen = [r \in Runs |-> [g \in Generators |-> IF g = "gen" THEN Unseeded ELSE DefaultSeed]]
  /\ units = [r \in Runs |-> [u \in Units |-> Idle]]
  /\ NoEvent
  /\ NoBatch

\* one run whose process functions the host may run in parallel
NextRng ==
  \/ \E u \in Units, g \in Generators : DrawBegin(1, u, g)
  \/ \E u \in Units : DrawEnd(1, u)

SpecRng == InitRng /\ [][NextRng]_vars

\* two runs of the same job, each working through its events in one thread
NextRuns ==
  \/ \E r \in Runs, g \in Generators :
       /\ \A u \in Units : units[r][u].pc = "idle"
       /\ DrawBegin(r, "processData", g)
  \/ \E r \in Runs : DrawEnd(r, "processData")

SpecRuns == InitRng /\ [][NextRuns]_vars

\* lines 515-525: one call of shouldRejectEvent in which dis(gen) yields number
CallShouldRejectEvent(number) ==
  /\ pc = "reject"
  /\ ret' = [randomNumber |-> number,
             rejected |-> shouldRejectEvent(number, args.rejectionPercentage)]
  /\ rngDraws' = 1
  /\ pc' = "decided"
  /\ UNCHANGED <<fn, args, jetAxis, ueAxis1, ueAxis2, branch, log, diag, status,
                 responseMatrix, eventVars, rngVars>>
  /\ UNCHANGED dataVars
  /\ UNCHANGED batchVars

\* lines 534-538: the caller returns, or goes on, and the next event comes
NextDecision ==
  /\ pc = "decided"
  /\ ret' = NoDecision
  /\ rngDraws' = 0
  /\ pc' = "reject"
  /\ UNCHANGED <<fn, args, jetAxis, ueAxis1, ueAxis2, branch, log, diag, status,
                 responseMatrix, eventVars, rngVars>>
  /\ UNCHANGED dataVars
  /\ UNCHANGED batchVars

\* rejectEvents is on and rejectionPercentage is set to any value of the range
InitReject ==
  /\ fn = "shouldRejectEvent"
  /\ args \in [rejectionPercentage : Percentages]
  /\ ret = NoDecision
  /\ pc = "reject"
  /\ jetAxis = NoVec
  /\ ueAxis1 = NoVec
  /\ ueAxis2 = NoVec
  /\ branch = "none"
  /\ log = NoLog
  /\ diag = "none"
  /\ status = "running"
  /\ responseMatrix = NullPtr
  /\ rngDraws = 0
  /\ rhoPerp = NoRho
  /\ rhoMPerp = NoRho
  /\ coneRadius = NoRadius
  /\ nParticlesPerp = 0
  /\ gen = NoGenerators
  /\ units = NoUnits
  /\ NoEvent
  /\ NoBatch

NextReject ==
  \/ \E number \in DrawValues : CallShouldRejectEvent(number)
  \/ NextDecision

SpecReject == InitReject /\ [][NextReject]_vars

(***************************************************************************)
(* processData, one event after the other (lines 528-770).  The momenta of *)
(* the jets are in GeV/c and point along x in the transverse plane, with   *)
(* px a multiple of 5, so that their pt is a whole number of the 5 GeV/c   *)
(* steps of the jet loop.                                                  *)
(***************************************************************************)
\* a track, by the answer of passedTrackSelectionForJetReconstruction
Track(passes) == [passedForJets |-> passes]

\* the track collections handed in: none, rejected ones only, a rejected track
\* in front of an accepted one, accepted ones only
TrackLists ==
  {<< >>, <<Track(FALSE)>>, <<Track(TRUE)>>, <<Track(FALSE), Track(TRUE)>>,
   <<Track(TRUE), Track(TRUE)>>}

RECURSIVE trackLoopCounting(_, _, _)
trackLoopCounting(trks, n, countRejected) ==
  IF n = 0 THEN [id |-> 0 - 1, fjParticles |-> << >>]
  ELSE LET prev == trackLoopCounting(trks, n - 1, countRejected)
       IN IF ~trks[n].passedForJets
          THEN [id |-> IF countRejected THEN prev.id + 1 ELSE prev.id,
                fjParticles |-> prev.fjParticles]
          ELSE [id |-> prev.id + 1,
                fjParticles |-> Append(prev.fjParticles,
                                       [origin |-> n, user_index |-> prev.id + 1])]

\* the loop with id++ placed behind the selection
trackLoopCountingAccepted(trks) == trackLoopCounting(trks, Len(trks), FALSE).fjParticles

\* lines 551-563: id is incremented for every track, the accepted ones become
\* particles tagged with it
trackLoop(trks) == trackLoopCounting(trks, Len(trks), TRUE).fjParticles

\* tracks.iteratorAt(index): the row at the 0-based position index
iteratorAt(trks, index) ==
  IF index \in 0..(Len(trks) - 1) THEN [valid |-> TRUE, row |-> index + 1]
  ELSE [valid |-> FALSE, row |-> 0]

Bump(events, bin) == [events EXCEPT ![bin] = @ + 1]

\* the counters with bin 2.5 filled before the test for an empty event
countersFillingEmpty(events, sel8, nParticles) ==
  IF ~sel8 THEN Bump(events, 1)
  ELSE Bump(Bump(Bump(events, 1), 2), 3)

\* the counters with bin 2.5 filled before the event selection
countersFillingUnselected(events, sel8, nParticles) ==
  IF ~sel8 THEN Bump(Bump(events, 1), 3)
  ELSE IF nParticles < 1 THEN Bump(Bump(events, 1), 2)
  ELSE Bump(Bump(Bump(events, 1), 2), 3)

\* lines 541-568: number_of_events_data at 0.5, 1.5 and 2.5
countersAtStart(events, sel8, nParticles) ==
  IF ~sel8 THEN Bump(events, 1)
  ELSE IF nParticles < 1 THEN Bump(Bump(events, 1), 2)
  ELSE Bump(Bump(Bump(events, 1), 2), 3)

\* lines 767-769: number_of_events_data at 3.5
countersAtEnd(events, selected) == IF selected THEN Bump(events, 4) ELSE events

\* the pt values of the clustered jets, around the threshold
ClusteredPts == {minJetPt - 1, minJetPt}

\* jet momenta in GeV/c: pt = 5 * k, eta = 0 or eta = asinh(1)
JetMomenta == {Vec(5 * k, 0, 5 * k * z) : k \in ClusteredPts, z \in {0, 1}}

\* jet.pt() in steps of 5 GeV/c
jetPt(jet) == jet.p.x \div 5

ParticlesOf(particles) == {particles[i] : i \in DOMAIN particles}

JetCandidates(particles) ==
  [p : JetMomenta, area : 0..MaxArea,
   constituents : (SUBSET ParticlesOf(particles)) \ {{}}]

\* lines 571-574: what the clustering can return for the particles: every
\* particle is a constituent of exactly one jet, the jets sorted by pt
ClusteredJets(particles) ==
  {js \in UNION {[1..k -> JetCandidates(particles)] : k \in 1..Len(particles)} :
     /\ UNION {js[i].constituents : i \in DOMAIN js} = ParticlesOf(particles)
     /\ \A i, j \in DOMAIN js : i # j => js[i].constituents \cap js[j].constituents = {}
     /\ \A i, j \in DOMAIN js : i < j => jetPt(js[i]) >= jetPt(js[j])}

\* line 581: (fabs(jet.eta()) + rJet) > (maxEta - deltaEtaEdge), with rJet = 0.3,
\* maxEta = 0.8, deltaEtaEdge = 0.05: |eta| > 0.45, that is
\* pz^2 > sinh(0.45)^2 * (px^2 + py^2), and sinh(0.45)^2 = 0.2165
outsideAcceptance(jet) ==
  10000 * jet.p.z * jet.p.z > 2165 * (jet.p.x * jet.p.x + jet.p.y * jet.p.y)

\* line 593: std::sqrt(jet.area() / PI), kept by the area under the root
coneRadiusOf(area) == [sqrtOfOverPi |-> area]

\* the jet loop unfolding the pt before it tests the acceptance
jetSelectionUnfoldingFirst(jet, rho, rhoM, rm) ==
  {[steps |-> IF outsideAcceptance(jet)
              THEN <<"subtraction", "unfolding", "acceptance">>
              ELSE <<"subtraction", "unfolding", "acceptance", "threshold">>,
    draws |-> o.draws, level |-> o.level, corrected |-> <<o.ret>>,
    selected |-> ~outsideAcceptance(jet) /\ ~(o.ret < minJetPt)] :
     o \in getCorrectedPt(jetMinusBkgPt([pt |-> jetPt(jet), area |-> jet.area], rho, rhoM),
                          rm)}

\* lines 581-589: the tests a jet goes through, in their order, with the
\* diagnostics and draws of getCorrectedPt
jetSelection(jet, rho, rhoM, rm) ==
  IF outsideAcceptance(jet)
  THEN {[steps |-> <<"acceptance">>, draws |-> 0, level |-> "none", corrected |-> << >>,
         selected |-> FALSE]}
  ELSE {[steps |-> <<"acceptance", "subtraction", "unfolding", "threshold">>,
         draws |-> o.draws, level |-> o.level, corrected |-> <<o.ret>>,
         selected |-> ~(o.ret < minJetPt)] :
          o \in getCorrectedPt(
                  jetMinusBkgPt([pt |-> jetPt(jet), area |-> jet.area], rho, rhoM), rm)}

\* the jet of the collection with the background subtracted from it
Subtracted(jet, rho, rhoM) ==
  LET ptSub == jetMinusBkgPt([pt |-> jetPt(jet), area |-> jet.area], rho, rhoM)
  IN [jet EXCEPT !.p = Vec(5 * ptSub, 0, jet.p.z)]

\* lines 530-535: the event is rejected by shouldRejectEvent
RejectedEvent(trks) ==
  /\ pc = "await"
  /\ status = "running"
  /\ registryData[1] < MaxEvents
  /\ fn' = "processData"
  /\ args' = [rejected |-> TRUE, sel8 |-> FALSE]
  /\ ret' = [before |-> registryData]
  /\ tracks' = trks
  /\ fjParticles' = << >>
  /\ jets' = << >>
  /\ jetIndex' = 0
  /\ isAtLeastOneJetSelected' = FALSE
  /\ fills' = NoFills
  /\ trace' = NoTrace
  /\ jetAxis' = NoVec
  /\ ueAxis1' = NoVec
  /\ ueAxis2' = NoVec
  /\ branch' = "none"
  /\ diag' = "none"
  /\ rhoPerp' = NoRho
  /\ rhoMPerp' = NoRho
  /\ coneRadius' = NoRadius
  /\ UNCHANGED <<pc, log, status, responseMatrix, rngDraws, nParticlesPerp, registryData>>
  /\ UNCHANGED rngVars
  /\ UNCHANGED batchVars

\* lines 541-568: the counters, the event selection, the track loop and the test
\* for an empty event
StartEvent(sel8, trks) ==
  /\ pc = "await"
  /\ status = "running"
  /\ registryData[1] < MaxEvents
  /\ fn' = "processData"
  /\ args' = [rejected |-> FALSE, sel8 |-> sel8]
  /\ ret' = [before |-> registryData]
  /\ tracks' = trks
  /\ fjParticles' = IF sel8 THEN trackLoop(trks) ELSE << >>
  /\ registryData' = countersAtStart(registryData, sel8, Len(fjParticles'))
  /\ pc' = IF sel8 /\ ~(Len(fjParticles') < 1) THEN "cluster" ELSE "await"
  /\ jets' = << >>
  /\ jetIndex' = 0
  /\ isAtLeastOneJetSelected' = FALSE
  /\ fills' = NoFills
  /\ trace' = NoTrace
  /\ jetAxis' = NoVec
  /\ ueAxis1' = NoVec
  /\ ueAxis2' = NoVec
  /\ branch' = "none"
  /\ diag' = "none"
  /\ rhoPerp' = NoRho
  /\ rhoMPerp' = NoRho
  /\ coneRadius' = NoRadius
  /\ UNCHANGED <<log, status, responseMatrix, rngDraws, nParticlesPerp>>
  /\ UNCHANGED rngVars
  /\ UNCHANGED batchVars

\* lines 571-578: the clustering and the densities of the event (of the pairs
\* estimateRhoPerpCone can return, the event loop takes those with rhoM = rho)
Cluster(js, rho, rhoM) ==
  /\ pc = "cluster"
  /\ status = "running"
  /\ jets' = js
  /\ rhoPerp' = rho
  /\ rhoMPerp' = rhoM
  /\ jetIndex' = 1
  /\ isAtLeastOneJetSelected' = FALSE
  /\ pc' = "jets"
  /\ UNCHANGED <<fn, args, ret, jetAxis, ueAxis1, ueAxis2, branch, log, diag, status,
                 responseMatrix, rngDraws, coneRadius, nParticlesPerp, registryData,
                 tracks, fjParticles, fills, trace>>
  /\ UNCHANGED rngVars
  /\ UNCHANGED batchVars

\* the jet loop subtracting the background from the jet of the collection itself
ProcessJetInPlace ==
  /\ pc = "jets"
  /\ status = "running"
  /\ jetIndex \in 1..Len(jets)
  /\ \E o \in jetSelection(jets[jetIndex], rhoPerp, rhoMPerp, responseMatrix) :
     \E jet \in {IF outsideAcceptance(jets[jetIndex]) THEN jets[jetIndex]
                 ELSE Subtracted(jets[jetIndex], rhoPerp, rhoMPerp)} :
     \E a1 \in {getPerpendicularAxis(jet.p, 1)} :
     \E a2 \in {getPerpendicularAxis(jet.p, -1)} :
     \E log1 \in {IF o.level = "none" THEN log ELSE LOGP(log, o.level)} :
     \E log2 \in {IF a1.level = "none" THEN log1 ELSE LOGP(log1, a1.level)} :
     \E log3 \in {IF a2.level = "none" THEN log2 ELSE LOGP(log2, a2.level)} :
          /\ o.level # "none" => log[o.level] < MaxLog
          /\ rngDraws' = rngDraws + o.draws
          /\ status' = StatusAfter(status, o.level)
          /\ jets' = [jets EXCEPT ![jetIndex] = IF outsideAcceptance(@) THEN @
                                             ELSE Subtracted(@, rhoPerp, rhoMPerp)]
          /\ IF o.selected
             THEN /\ isAtLeastOneJetSelected' = TRUE
                  /\ coneRadius' = coneRadiusOf(jet.area)
                  /\ jetAxis' = jet.p
                  /\ ueAxis1' = a1.u
                  /\ ueAxis2' = a2.u
                  /\ branch' = axisBranch(jet.p)
                  /\ diag' = IF a2.level # "none" THEN a2.level
                             ELSE IF a1.level # "none" THEN a1.level ELSE o.level
                  /\ log' = log3
                  /\ fills' = [jet |-> fills.jet + Cardinality(jet.constituents),
                               ue  |-> fills.ue + Len(tracks)]
                  /\ trace' = [jet |-> jetIndex,
                               steps |-> o.steps \o <<"axis", "axis", "constituents", "ue">>,
                               draws |-> o.draws, corrected |-> o.corrected,
                               looked |-> {[origin |-> c.origin,
                                            track |-> iteratorAt(tracks, c.user_index)] :
                                             c \in jet.constituents}]
             ELSE /\ diag' = o.level
                  /\ log' = log1
                  /\ trace' = [jet |-> jetIndex, steps |-> o.steps, draws |-> o.draws,
                               corrected |-> o.corrected, looked |-> {}]
                  /\ UNCHANGED <<isAtLeastOneJetSelected, coneRadius, jetAxis, ueAxis1,
                                 ueAxis2, branch, fills>>
  /\ jetIndex' = jetIndex + 1
  /\ UNCHANGED <<fn, args, ret, pc, responseMatrix, rhoPerp, rhoMPerp, nParticlesPerp,
                 registryData, tracks, fjParticles>>
  /\ UNCHANGED rngVars
  /\ UNCHANGED batchVars

\* lines 579-765: one jet of the loop: the acceptance, the subtraction on the
\* copy jetForSub, the threshold, and for a selected jet the axes, the loop over
\* its constituents and the loop over the tracks
ProcessJet ==
  /\ pc = "jets"
  /\ status = "running"
  /\ jetIndex \in 1..Len(jets)
  /\ \E o \in jetSelection(jets[jetIndex], rhoPerp, rhoMPerp, responseMatrix) :
     \E jet \in {jets[jetIndex]} :
     \E a1 \in {getPerpendicularAxis(jet.p, 1)} :
     \E a2 \in {getPerpendicularAxis(jet.p, -1)} :
     \E log1 \in {IF o.level = "none" THEN log ELSE LOGP(log, o.level)} :
     \E log2 \in {IF a1.level = "none" THEN log1 ELSE LOGP(log1, a1.level)} :
     \E log3 \in {IF a2.level = "none" THEN log2 ELSE LOGP(log2, a2.level)} :
          /\ o.level # "none" => log[o.level] < MaxLog
          /\ rngDraws' = rngDraws + o.draws
          /\ status' = StatusAfter(status, o.level)
          /\ UNCHANGED jets
          /\ IF o.selected
             THEN /\ isAtLeastOneJetSelected' = TRUE
                  /\ coneRadius' = coneRadiusOf(jet.area)
                  /\ jetAxis' = jet.p
                  /\ ueAxis1' = a1.u
                  /\ ueAxis2' = a2.u
                  /\ branch' = axisBranch(jet.p)
                  /\ diag' = IF a2.level # "none" THEN a2.level
                             ELSE IF a1.level # "none" THEN a1.level ELSE o.level
                  /\ log' = log3
                  /\ fills' = [jet |-> fills.jet + Cardinality(jet.constituents),
                               ue  |-> fills.ue + Len(tracks)]
                  /\ trace' = [jet |-> jetIndex,
                               steps |-> o.steps \o <<"axis", "axis", "constituents", "ue">>,
                               draws |-> o.draws, corrected |-> o.corrected,
                               looked |-> {[origin |-> c.origin,
                                            track |-> iteratorAt(tracks, c.user_index)] :
                                             c \in jet.constituents}]
             ELSE /\ diag' = o.level
                  /\ log' = log1
                  /\ trace' = [jet |-> jetIndex, steps |-> o.steps, draws |-> o.draws,
                               corrected |-> o.corrected, looked |-> {}]
                  /\ UNCHANGED <<isAtLeastOneJetSelected, coneRadius, jetAxis, ueAxis1,
                                 ueAxis2, branch, fills>>
  /\ jetIndex' = jetIndex + 1
  /\ UNCHANGED <<fn, args, ret, pc, responseMatrix, rhoPerp, rhoMPerp, nParticlesPerp,
                 registryData, tracks, fjParticles>>
  /\ UNCHANGED rngVars
  /\ UNCHANGED batchVars

\* lines 767-769: the jet loop is over
FinishEvent ==
  /\ pc = "jets"
  /\ status = "running"
  /\ jetIndex > Len(jets)
  /\ registryData' = countersAtEnd(registryData, isAtLeastOneJetSelected)
  /\ pc' = "await"
  /\ UNCHANGED <<fn, args, ret, jetAxis, ueAxis1, ueAxis2, branch, log, diag, status,
                 responseMatrix, rngDraws, eventVars, tracks, fjParticles, jets, jetIndex,
                 isAtLeastOneJetSelected, fills, trace>>
  /\ UNCHANGED rngVars
  /\ UNCHANGED batchVars

\* the task after init() with applyPtUnfolding on (the default): the response
\* matrix has an entry for the pt below the threshold and an offset that lifts it
InitData ==
  /\ fn = "init"
  /\ args = NoArgs
  /\ ret = [before |-> NoEvents]
  /\ pc = "await"
  /\ jetAxis = NoVec
  /\ ueAxis1 = NoVec
  /\ ueAxis2 = NoVec
  /\ branch = "none"
  /\ log = NoLog
  /\ diag = "none"
  /\ status = "running"
  /\ responseMatrix = PtrTo(Fill(EmptyMatrix, 1, NbinsY))
  /\ rngDraws = 0
  /\ rhoPerp = NoRho
  /\ rhoMPerp = NoRho
  /\ coneRadius = NoRadius
  /\ nParticlesPerp = 0
  /\ gen = NoGenerators
  /\ units = NoUnits
  /\ NoEvent
  /\ NoBatch

NextData ==
  \/ \E trks \in TrackLists : RejectedEvent(trks)
  \/ \E sel8 \in BOOLEAN, trks \in TrackLists : StartEvent(sel8, trks)
  \/ /\ pc = "cluster"
     /\ \E js \in ClusteredJets(fjParticles), rho \in Densities :
          Cluster(js, rho, rho)
  \/ ProcessJet
  \/ FinishEvent

SpecData == InitData /\ [][NextData]_vars

(***************************************************************************)
(* processJetsMCrec: one call with its loop over the collisions (lines     *)
(* 1121-1182).  Of the body of the jet loop the call keeps the fill of     *)
(* detectorResponseMatrix and the call of getCorrectedPt; the steps of a   *)
(* selected jet are those of the jet loop of processData.                  *)
(***************************************************************************)
\* a collision, by the answer of sel8() && fabs(posZ()) <= zVtx
Collision(sel8) == [sel8 |-> sel8]

\* the batches handed to one call
Batches == UNION {[1..n -> {Collision(TRUE), Collision(FALSE)}] : n \in 1..MaxEvents}

\* where the loop over the collisions stands after the collision at index
AfterCollision(index) == IF index + 1 > Len(collisions) THEN "returned" ELSE "collisions"

\* the draws and error messages of getCorrectedPt over the jets 1..n inside the
\* acceptance
RECURSIVE unfoldingEffects(_, _, _, _)
unfoldingEffects(js, n, rho, rm) ==
  IF n = 0 THEN [draws |-> 0, errors |-> 0]
  ELSE LET prev == unfoldingEffects(js, n - 1, rho, rm)
           o == CHOOSE x \in getCorrectedPt(
                               jetMinusBkgPt([pt |-> jetPt(js[n]), area |-> js[n].area],
                                             rho, rho), rm) : TRUE
       IN IF outsideAcceptance(js[n]) THEN prev
          ELSE [draws |-> prev.draws + o.draws,
                errors |-> prev.errors + (IF o.level = "error" THEN 1 ELSE 0)]

\* line 1176: registryMC.fill(HIST("detectorResponseMatrix"), jet.pt(), jetPtGen - jet.pt())
responseFillX(jet, rho, rhoM) == jetPt(jet)

\* line 1181: getCorrectedPt(jetMinusBkg.pt(), responseMatrix)
lookupPtRec(jet, rho, rhoM) == jetMinusBkgPt([pt |-> jetPt(jet), area |-> jet.area], rho, rhoM)

\* line 1121: the framework calls processJetsMCrec with a batch of collisions
\* and the table of tracks
McRecCall(batch, trks) ==
  /\ pc = "await"
  /\ status = "running"
  /\ fn' = "processJetsMCrec"
  /\ collisions' = batch
  /\ collisionIndex' = 1
  /\ processed' = {}
  /\ tracks' = trks
  /\ pc' = "collisions"
  /\ UNCHANGED <<args, ret, jetAxis, ueAxis1, ueAxis2, branch, log, diag, status,
                 responseMatrix, rngDraws, eventVars, registryData, fjParticles, jets,
                 jetIndex, isAtLeastOneJetSelected, fills, trace, responseFills, lookups>>
  /\ UNCHANGED rngVars

\* lines 1125-1127: the collision fails the event selection, the function returns
McRecReturn ==
  /\ pc = "collisions"
  /\ status = "running"
  /\ ~collisions[collisionIndex].sel8
  /\ pc' = "returned"
  /\ UNCHANGED <<fn, args, ret, jetAxis, ueAxis1, ueAxis2, branch, log, diag, status,
                 responseMatrix, rngDraws, eventVars, dataVars, batchVars>>
  /\ UNCHANGED rngVars

\* lines 1129-1144: the collision passes, no track becomes a particle, the loop
\* continues with the next collision
McRecEmpty ==
  /\ pc = "collisions"
  /\ status = "running"
  /\ collisions[collisionIndex].sel8
  /\ Len(trackLoop(tracks)) < 1
  /\ processed' = processed \cup {collisionIndex}
  /\ fjParticles' = << >>
  /\ collisionIndex' = collisionIndex + 1
  /\ pc' = AfterCollision(collisionIndex)
  /\ UNCHANGED <<fn, args, ret, jetAxis, ueAxis1, ueAxis2, branch, log, diag, status,
                 responseMatrix, rngDraws, eventVars, registryData, tracks, jets, jetIndex,
                 isAtLeastOneJetSelected, fills, trace, collisions, responseFills, lookups>>
  /\ UNCHANGED rngVars

\* lines 1129-1182: the collision passes, its particles are clustered, and for
\* every jet inside the acceptance the response matrix is filled and
\* getCorrectedPt is called
McRecJets(js, rho) ==
  /\ pc = "collisions"
  /\ status = "running"
  /\ collisions[collisionIndex].sel8
  /\ ~(Len(trackLoop(tracks)) < 1)
  /\ processed' = processed \cup {collisionIndex}
  /\ fjParticles' = trackLoop(tracks)
  /\ jets' = js
  /\ rhoPerp' = rho
  /\ rhoMPerp' = rho
  /\ \E inside \in {{i \in DOMAIN js : ~outsideAcceptance(js[i])}} :
     \E eff \in {unfoldingEffects(js, Len(js), rho, responseMatrix)} :
        /\ responseFills' = responseFills \cup
             {[collision |-> collisionIndex, jet |-> i, x |-> responseFillX(js[i], rho, rho)] :
                i \in inside}
        /\ lookups' = lookups \cup
             {[collision |-> collisionIndex, jet |-> i, x |-> lookupPtRec(js[i], rho, rho)] :
                i \in inside}
        /\ rngDraws' = rngDraws + eff.draws
        /\ log' = [log EXCEPT !["error"] = @ + eff.errors]
        /\ diag' = IF eff.errors > 0 THEN "error" ELSE "none"
  /\ collisionIndex' = collisionIndex + 1
  /\ pc' = AfterCollision(collisionIndex)
  /\ UNCHANGED <<fn, args, ret, jetAxis, ueAxis1, ueAxis2, branch, status, responseMatrix,
                 coneRadius, nParticlesPerp, registryData, tracks, jetIndex,
                 isAtLeastOneJetSelected, fills, trace, collisions>>
  /\ UNCHANGED rngVars

InitMcRec ==
  /\ fn = "init"
  /\ args = NoArgs
  /\ ret = NoRet
  /\ pc = "await"
  /\ jetAxis = NoVec
  /\ ueAxis1 = NoVec
  /\ ueAxis2 = NoVec
  /\ branch = "none"
  /\ log = NoLog
  /\ diag = "none"
  /\ status = "running"
  /\ responseMatrix = PtrTo(Fill(EmptyMatrix, 1, NbinsY))
  /\ rngDraws = 0
  /\ rhoPerp = NoRho
  /\ rhoMPerp = NoRho
  /\ coneRadius = NoRadius
  /\ nParticlesPerp = 0
  /\ gen = NoGenerators
  /\ units = NoUnits
  /\ NoEvent
  /\ NoBatch

NextMcRec ==
  \/ \E batch \in Batches, trks \in TrackLists : McRecCall(batch, trks)
  \/ McRecReturn
  \/ McRecEmpty
  \/ /\ pc = "collisions"
     /\ \E js \in ClusteredJets(trackLoop(tracks)), rho \in Densities : McRecJets(js, rho)

SpecMcRec == InitMcRec /\ [][NextMcRec]_vars

(***************************************************************************)
(* Properties                                                              *)
(***************************************************************************)
HasNaN(v) == v.x.nan \/ v.y.nan \/ v.z.nan

DeltaPhiDone == fn = "getDeltaPhi" /\ pc = "done"

\* C1: for every pair of angles, normalized or not, getDeltaPhi(a, b) equals
\* getDeltaPhi(b, a) and lies in the closed range [0, pi].
C1_DeltaPhiSymmetricBounded ==
  DeltaPhiDone =>
    /\ ret = getDeltaPhi(args.a2, args.a1)
    /\ ret >= 0
    /\ ret <= PI

C1_Witness ==
  /\ DeltaPhiDone
  /\ args.a1 < 0
  /\ args.a2 > TwoPI
  /\ ret > 0
  /\ ret < PI

\* the reduction on the cyclic domain as section 4.1 words it
ReferenceDeltaPhi(a1, a2) ==
  LET d == Abs((a1 % TwoPI) - (a2 % TwoPI))
  IN IF d > PI THEN TwoPI - d ELSE d

\* C2: getDeltaPhi equals the reference reduction (normalize both angles into
\* [0, 2pi), take the absolute difference d, return 2pi - d when d > pi and d
\* otherwise); the wrap-around pair (e, 2pi - e) gives 2e and the boundary pair
\* (0, 2pi) gives 0.
C2_DeltaPhiIsCyclicReduction ==
  DeltaPhiDone =>
    /\ ret = ReferenceDeltaPhi(args.a1, args.a2)
    /\ (args.a1 = 1 /\ args.a2 = TwoPI - 1) => ret = 2
    /\ (args.a1 = 0 /\ args.a2 = TwoPI) => ret = 0

C2_Witness ==
  /\ DeltaPhiDone
  /\ args.a1 = 1
  /\ args.a2 = TwoPI - 1
  /\ ret = 2

\* the first axis is solved at "axis2" and "cones", the second one at "cones"
Axis1Solved == fn = "getPerpendicularAxis" /\ pc \in {"axis2", "cones"}

Axis2Solved == fn = "getPerpendicularAxis" /\ pc = "cones"

GeneralCase(p) == p.x # 0 /\ p.y # 0

\* b*b - 4*a*c of the general case, in integers
Discriminant(p) ==
  LET a == p.x * p.x + p.y * p.y
      b == 2 * p.x * p.z * p.z
      c == p.z * p.z * p.z * p.z - p.y * p.y * p.y * p.y - p.x * p.x * p.y * p.y
  IN b * b - 4 * a * c

\* px*ux + py*uy = -pz^2 and uz = pz
SolvesConstraint(p, v) ==
  /\ Eq[Add[Mul[D[p.x], v.x], Mul[D[p.y], v.y]], D[0 - p.z * p.z]]
  /\ Eq[v.z, D[p.z]]

\* C3: for every p with px # 0, py # 0 and discriminant >= 0, the axes returned
\* for sign = +1 and for sign = -1 both satisfy px*ux + py*uy = -pz^2 and uz = pz.
C3_GeneralCaseSolvesConstraint ==
  /\ (Axis1Solved /\ GeneralCase(jetAxis) /\ Discriminant(jetAxis) >= 0)
       => SolvesConstraint(jetAxis, ueAxis1)
  /\ (Axis2Solved /\ GeneralCase(jetAxis) /\ Discriminant(jetAxis) >= 0)
       => SolvesConstraint(jetAxis, ueAxis2)

C3_Witness ==
  /\ Axis2Solved
  /\ GeneralCase(jetAxis)
  /\ jetAxis.z # 0
  /\ Discriminant(jetAxis) > 0
  /\ ueAxis1.x.s # 0
  /\ ueAxis1 # ueAxis2
  /\ SolvesConstraint(jetAxis, ueAxis1)
  /\ SolvesConstraint(jetAxis, ueAxis2)

BothNonZero == ueAxis1 # ZeroVec /\ ueAxis2 # ZeroVec

AntiParallel ==
  /\ Eq[ueAxis1.x, Neg[ueAxis2.x]]
  /\ Eq[ueAxis1.y, Neg[ueAxis2.y]]

\* C4 as claimed: whenever the two axes of one jet are both non-zero, their
\* transverse components are anti-parallel, for every p including pz # 0.
C4_AxesAntiParallel ==
  (Axis2Solved /\ BothNonZero) => AntiParallel

\* (px^2 + py^2) * (u1 + u2) = -2 * pz^2 * (px, py) in the transverse plane
TransverseSum(p) ==
  LET pt2 == D[p.x * p.x + p.y * p.y]
      k   == D[0 - 2 * p.z * p.z]
  IN /\ Eq[Mul[pt2, Add[ueAxis1.x, ueAxis2.x]], Mul[k, D[p.x]]]
     /\ Eq[Mul[pt2, Add[ueAxis1.y, ueAxis2.y]], Mul[k, D[p.y]]]

\* C4 amended: whenever the two axes of one jet are both non-zero and free of
\* NaN, their transverse components sum to -2*pz^2/(px^2+py^2) * (px, py); they
\* are anti-parallel exactly when pz = 0.
C4_AxesAntiParallelIffPzZero ==
  (Axis2Solved /\ BothNonZero /\ ~HasNaN(ueAxis1) /\ ~HasNaN(ueAxis2)) =>
    /\ TransverseSum(jetAxis)
    /\ AntiParallel <=> jetAxis.z = 0

C4_Witness ==
  /\ Axis2Solved
  /\ BothNonZero
  /\ GeneralCase(jetAxis)
  /\ jetAxis.z = 0
  /\ AntiParallel
  /\ ueAxis1 # ueAxis2

\* a degenerate axis for which no perpendicular direction exists
DegenerateInvalid(p) ==
  \/ p.x = 0 /\ p.y = 0
  \/ p.x = 0 /\ p.y # 0 /\ p.y * p.y * p.y * p.y < p.z * p.z * p.z * p.z
  \/ p.y = 0 /\ p.x # 0 /\ p.x * p.x * p.x * p.x < p.z * p.z * p.z * p.z

\* C5: every geometrically invalid input with a degenerate axis (px = 0 or
\* py = 0) is answered with the zero vector together with a diagnostic, and no
\* returned component is ever undefined.
C5_DegenerateInvalidRecovered ==
  /\ (fn = "getPerpendicularAxis" /\ pc = "axis2" /\ DegenerateInvalid(jetAxis))
       => (ueAxis1 = ZeroVec /\ diag # "none")
  /\ (Axis2Solved /\ DegenerateInvalid(jetAxis))
       => (ueAxis2 = ZeroVec /\ diag # "none")
  /\ Axis1Solved => ~HasNaN(ueAxis1)
  /\ Axis2Solved => ~HasNaN(ueAxis2)

\* C6: in the general case with a negative discriminant getPerpendicularAxis
\* returns the zero vector, emits a diagnostic and returns normally: the process
\* keeps running and the caller goes on with the jet.
C6_NegativeDiscriminantRecovered ==
  /\ (fn = "getPerpendicularAxis" /\ pc = "axis2" /\ GeneralCase(jetAxis)
        /\ Discriminant(jetAxis) < 0)
       => (ueAxis1 = ZeroVec /\ diag # "none" /\ status = "running")
  /\ (Axis2Solved /\ GeneralCase(jetAxis) /\ Discriminant(jetAxis) < 0)
       => (ueAxis1 = ZeroVec /\ ueAxis2 = ZeroVec /\ diag # "none"
             /\ status = "running")

C6_Witness ==
  /\ Axis2Solved
  /\ GeneralCase(jetAxis)
  /\ Discriminant(jetAxis) < 0
  /\ ueAxis1 = ZeroVec
  /\ ueAxis2 = ZeroVec
  /\ log["warn"] >= 2
  /\ status = "running"

\* C7: if px = 0 and py = 0 the axis written is the zero vector, for both signs
\* and every pz.
C7_BothZeroGivesZeroVector ==
  /\ (Axis1Solved /\ jetAxis.x = 0 /\ jetAxis.y = 0) => ueAxis1 = ZeroVec
  /\ (Axis2Solved /\ jetAxis.x = 0 /\ jetAxis.y = 0) => ueAxis2 = ZeroVec

C7_Witness ==
  /\ Axis2Solved
  /\ jetAxis = Vec(0, 0, MaxP)
  /\ ueAxis1 = ZeroVec
  /\ ueAxis2 = ZeroVec
  /\ branch = "bothZero"

\* the branch the priority order both-zero, px-zero, py-zero, general selects
ExpectedBranch(p) ==
  CASE p.x = 0 /\ p.y = 0 -> "bothZero"
    [] p.x = 0 /\ p.y # 0 -> "pxZero"
    [] p.x # 0 /\ p.y = 0 -> "pyZero"
    [] OTHER -> "general"

\* v = (sg*sqrt(w^2 - pz^4/w^2), -pz^2/w, pz) with the root component named by
\* root and the other transverse component by lin; the root of a negative
\* argument is NaN
DirectSolution(w, pz, root, lin, uz, sg) ==
  /\ Eq[uz, D[pz]]
  /\ Eq[Mul[lin, D[w]], D[0 - pz * pz]]
  /\ IF w * w * w * w >= pz * pz * pz * pz
     THEN /\ Eq[Mul[Mul[root, root], D[w * w]], D[w * w * w * w - pz * pz * pz * pz]]
          /\ SignOf(root) \in {0, sg}
     ELSE root.nan

BranchShape(p, v, sg) ==
  CASE ExpectedBranch(p) = "pxZero" -> DirectSolution(p.y, p.z, v.x, v.y, v.z, sg)
    [] ExpectedBranch(p) = "pyZero" -> DirectSolution(p.x, p.z, v.y, v.x, v.z, sg)
    [] OTHER -> TRUE

\* C8: exactly one branch is selected, in the priority order both-zero, px-zero,
\* py-zero, general; the px-zero branch returns
\* (sign*sqrt(py^2 - pz^4/py^2), -pz^2/py, pz) and the py-zero branch the
\* mirrored (-pz^2/px, sign*sqrt(px^2 - pz^4/px^2), pz).
C8_BranchPriorityAndDirectSolutions ==
  /\ Axis1Solved => (branch = ExpectedBranch(jetAxis) /\ BranchShape(jetAxis, ueAxis1, 1))
  /\ Axis2Solved => BranchShape(jetAxis, ueAxis2, -1)

C8_Witness ==
  /\ Axis2Solved
  /\ branch = "pyZero"
  /\ jetAxis.z # 0
  /\ ~HasNaN(ueAxis1)
  /\ ueAxis1.y.s # 0
  /\ SignOf(ueAxis1.y) = 1
  /\ SignOf(ueAxis2.y) = -1

CorrectedPtCalled == fn = "getCorrectedPt" /\ pc = "ready"

\* C9: with a null response matrix getCorrectedPt returns ptRec exactly, for
\* every input, and the process keeps running.
C9_NullMatrixIsIdentity ==
  (CorrectedPtCalled /\ responseMatrix.kind = "null") =>
    (ret = args.ptRec /\ status = "running")

C9_Witness ==
  /\ CorrectedPtCalled
  /\ responseMatrix.kind = "null"
  /\ args.ptRec > XMin
  /\ args.ptRec < XMax
  /\ ret = args.ptRec
  /\ diag = "error"

\* the input lies below the first or at or beyond the last edge of the axis
OutsideAxis(x) == x < XMin \/ x >= XMax

\* C10: with a non-null response matrix and an input in the underflow or the
\* overflow bin of the reconstructed-pt axis, getCorrectedPt returns the input
\* unchanged and draws no random sample.
C10_OutOfRangePassThrough ==
  [][(pc = "ready" /\ fn' = "getCorrectedPt" /\ responseMatrix.kind = "object"
        /\ OutsideAxis(args'.ptRec))
       => (ret' = args'.ptRec /\ rngDraws' = rngDraws)]_vars

C10_Witness ==
  /\ CorrectedPtCalled
  /\ responseMatrix.kind = "object"
  /\ GetEntries(ProjectionY(responseMatrix.h, NbinsX)) > 0
  /\ Integral(ProjectionY(responseMatrix.h, 1)) > 0
  /\ args.ptRec >= XMax
  /\ ret = args.ptRec
  /\ diag = "error"
  /\ rngDraws = 0

\* the bin of the reconstructed-pt axis that holds an in-range x
XBinOf(x) ==
  CHOOSE bx \in 1..NbinsX :
    XMin + (bx - 1) * XBinWidth <= x /\ x < XMin + bx * XBinWidth

\* the bin of the offset axis that holds s: 0 below the axis, NbinsY + 1 beyond it
YBinOf(s) ==
  IF s < YMin THEN 0
  ELSE IF s >= YMin + NbinsY * YBinWidth THEN NbinsY + 1
  ELSE CHOOSE by \in 1..NbinsY :
         YMin + (by - 1) * YBinWidth <= s /\ s < YMin + by * YBinWidth

\* the offsets recorded for the bin of x, under- and overflow included
OffsetsOf(h, x) == h[XBinOf(x)]

AnyEntries(col) == \E by \in 0..(NbinsY + 1) : col[by] > 0

InRangeEntries(col) == \E by \in 1..NbinsY : col[by] > 0

\* a step that is a call of getCorrectedPt on a histogram with an in-range input
InRangeCall ==
  /\ pc = "ready"
  /\ fn' = "getCorrectedPt"
  /\ responseMatrix.kind = "object"
  /\ ~OutsideAxis(args'.ptRec)

\* C11 as claimed: for an in-range input getCorrectedPt returns the input
\* unchanged when the offsets recorded for the input's bin have no entries;
\* otherwise it returns input + s for one sample s, an offset with non-zero
\* recorded content in that bin.
C11_SampleWheneverEntries ==
  [][InRangeCall =>
       IF ~AnyEntries(OffsetsOf(responseMatrix.h, args'.ptRec))
       THEN ret' = args'.ptRec /\ rngDraws' = rngDraws
       ELSE /\ OffsetsOf(responseMatrix.h, args'.ptRec)[YBinOf(ret' - args'.ptRec)] > 0
            /\ rngDraws' = rngDraws + 1]_vars

\* C11 amended: for an in-range input getCorrectedPt returns the input unchanged,
\* without drawing, when the input's bin has no content inside the range of the
\* offset axis (entries recorded only in the offset under- or overflow count as
\* none); otherwise it returns input + s for one sample s that lies in an offset
\* bin with non-zero content in that bin.
C11_SampleFromInRangeContent ==
  [][InRangeCall =>
       IF ~InRangeEntries(OffsetsOf(responseMatrix.h, args'.ptRec))
       THEN ret' = args'.ptRec /\ rngDraws' = rngDraws
       ELSE /\ YBinOf(ret' - args'.ptRec) \in 1..NbinsY
            /\ OffsetsOf(responseMatrix.h, args'.ptRec)[YBinOf(ret' - args'.ptRec)] > 0
            /\ rngDraws' = rngDraws + 1]_vars

C11_Witness ==
  /\ CorrectedPtCalled
  /\ responseMatrix.kind = "object"
  /\ ~OutsideAxis(args.ptRec)
  /\ ret < args.ptRec
  /\ rngDraws = 1
  /\ OffsetsOf(responseMatrix.h, args.ptRec)[YBinOf(ret - args.ptRec)] > 0
  /\ \E bx \in 1..NbinsX : bx # XBinOf(args.ptRec) /\ AnyEntries(responseMatrix.h[bx])

\* init() has returned, unfolding was enabled and the calibration store yielded no
\* usable histogram (list absent, object missing, or not a TH2F)
InitFailed ==
  /\ fn = "init"
  /\ pc = "ready"
  /\ args.applyPtUnfolding
  /\ args.fetched = "null"

C13_UnavailableLoggedOnce == log["error"] <= 1

\* a step that handles one jet of the jet loop
JetStep == pc = "jetLoop" /\ pc' = "jetLoop"

\* the background-subtracted pt of the jet handled by the step
SubtractedPt == args'.pt - args'.area * rhoPerp

\* the value compared is an outcome of getCorrectedPt on the subtracted pt, with
\* the diagnostic and the draw of that outcome
ComparedIsCorrected ==
  \E o \in getCorrectedPt(SubtractedPt, responseMatrix) :
    /\ ret'.pt = o.ret
    /\ diag' = o.level
    /\ rngDraws' = rngDraws + o.draws

\* the value compared is the subtracted pt itself; getCorrectedPt is not evaluated
ComparedIsSubtracted ==
  /\ ret'.pt = SubtractedPt
  /\ diag' = "none"
  /\ rngDraws' = rngDraws

\* C14 as claimed: in every process function with a jet loop the value compared
\* with minJetPt is the background-subtracted pt mapped through getCorrectedPt.
C14_EveryVariantUnfolds ==
  [][JetStep => (ComparedIsCorrected /\ ret'.selected = (ret'.pt >= minJetPt))]_vars

\* C14 amended: in processData, processQC, processJetsMCrec and
\* processSystematicsData the value compared with minJetPt is the
\* background-subtracted pt mapped through getCorrectedPt; processJetsMCgen
\* compares the background-subtracted pt itself.
C14_ReconstructedVariantsUnfold ==
  [][JetStep =>
       /\ ret'.selected = (ret'.pt >= minJetPt)
       /\ IF fn = "processJetsMCgen" THEN ComparedIsSubtracted ELSE ComparedIsCorrected]_vars

C14_Witness ==
  /\ pc = "jetLoop"
  /\ fn = "processJetsMCrec"
  /\ args # NoArgs
  /\ ret.ptSub < minJetPt
  /\ ret.pt >= minJetPt
  /\ ret.selected
  /\ rngDraws = 1

\* a jet of the current event has been handled
JetHandled == pc = "jetLoop" /\ args # NoArgs

C20_DensitiesAndMatrixReadOnly ==
  [][JetStep =>
       /\ rhoPerp \in Densities
       /\ rhoMPerp \in MassDensities
       /\ rhoPerp' = rhoPerp
       /\ rhoMPerp' = rhoMPerp
       /\ responseMatrix' = responseMatrix
       /\ ret'.ptSub = args'.pt - args'.area * rhoPerp']_vars

\* a jet was handled after one jet had drawn a sample and another had been
\* passed through with a diagnostic
C20_Witness ==
  /\ JetHandled
  /\ responseMatrix.kind = "object"
  /\ rngDraws = 1
  /\ log["error"] >= 1
  /\ rhoPerp = MaxRho
  /\ args.area > 0
  /\ ret.ptSub = args.pt - args.area * rhoPerp

\* a track of the underlying-event loop has been tested against the two cones
TrackTested == pc = "ueDone"

\* sqrt(dEta^2 + dPhi^2) <= radius, dPhi by getDeltaPhi
InsideCone(track, axis, radius) ==
  LET dEta == track.eta - axis.eta
      dPhi == IF axis.nanPhi THEN 0 ELSE getDeltaPhi(track.phi, axis.phi)
  IN dEta * dEta + dPhi * dPhi <= radius * radius

\* the track points along the axis
OnAxis(track, axis) ==
  ~axis.nanPhi /\ track.eta = axis.eta /\ track.phi = axis.phi % TwoPI

\* C16: in the underlying-event loop a particle is treated as inside a cone iff
\* sqrt(dEta^2 + dPhi^2) <= coneRadius with dPhi computed by getDeltaPhi: it is
\* kept iff it is inside one of the two cones, equality counts as inside, and a
\* particle exactly on an axis is kept for every radius >= 0.
C16_InsideIffDistanceAtMostRadius ==
  TrackTested =>
    /\ nParticlesPerp = 1
         <=> (InsideCone(args, ueAxis1, coneRadius) \/ InsideCone(args, ueAxis2, coneRadius))
    /\ (OnAxis(args, ueAxis1) \/ OnAxis(args, ueAxis2)) => nParticlesPerp = 1

\* a track across the 0 / 2pi seam from the first axis, exactly on the edge of its
\* cone and outside the second cone
C16_Witness ==
  /\ TrackTested
  /\ coneRadius = 1
  /\ ueAxis1.phi = 0 - 1
  /\ args.phi = 0
  /\ args.eta = ueAxis1.eta
  /\ ret.deltaRUe1 = D[1]
  /\ ~InsideCone(args, ueAxis2, coneRadius)
  /\ nParticlesPerp = 1

\* the number of cones of the jet that hold the track
ConesHolding(track) ==
  (IF InsideCone(track, ueAxis1, coneRadius) THEN 1 ELSE 0)
    + (IF InsideCone(track, ueAxis2, coneRadius) THEN 1 ELSE 0)

\* C17: membership in the two cones is evaluated independently and a particle
\* inside both cones of a jet is counted for both: it makes as many contributions
\* to the underlying-event sums of the jet as there are cones that hold it.
C17_CountedOncePerCone ==
  TrackTested => nParticlesPerp = ConesHolding(args)

\* the units of run 1 that are drawing, or have drawn, from generator g
UsersOf(g) ==
  {u \in Units : units[1][u].pc = "drawing" /\ units[1][u].g = g}
    \cup {ret[1][i].unit : i \in {j \in 1..Len(ret[1]) : ret[1][j].g = g}}

\* the units of run 1 that are inside a draw from generator g
DrawingFrom(g) == {u \in Units : units[1][u].pc = "drawing" /\ units[1][u].g = g}

\* C18: every processing unit owns its generator exclusively: no generator of
\* a run is drawn from by more than one unit, and no two units are inside a
\* draw from the same generator at the same time.
C18_GeneratorsExclusivelyOwned ==
  \A g \in Generators :
    /\ Cardinality(UsersOf(g)) <= 1
    /\ Cardinality(DrawingFrom(g)) <= 1

\* the calls the two runs have made are the same calls in the same order
SameCalls ==
  /\ Len(ret[1]) = Len(ret[2])
  /\ \A i \in 1..Len(ret[1]) : ret[1][i].unit = ret[2][i].unit /\ ret[1][i].g = ret[2][i].g

\* C19: two runs over the same events, with the configuration and calibration
\* the same, come to the same rejection decisions and draw the same samples
\* for the corrected pt.
C19_RunsReproducible == SameCalls => ret[1] = ret[2]

\* p . u = 0 in three dimensions and ux^2 + uy^2 = px^2 + py^2
Perpendicular(p, v) ==
  /\ Eq[Add[Add[Mul[D[p.x], v.x], Mul[D[p.y], v.y]], Mul[D[p.z], v.z]], D[0]]
  /\ Eq[Add[Mul[v.x, v.x], Mul[v.y, v.y]], D[p.x * p.x + p.y * p.y]]

WellDefined(v) == ~HasNaN(v) /\ v # ZeroVec

\* C28: whenever getPerpendicularAxis returns a non-zero vector u free of NaN,
\* in any branch and for either sign, u is orthogonal to p in three dimensions
\* and has the transverse length of p.
C28_AxisPerpendicularSameLength ==
  /\ (Axis1Solved /\ WellDefined(ueAxis1)) => Perpendicular(jetAxis, ueAxis1)
  /\ (Axis2Solved /\ WellDefined(ueAxis2)) => Perpendicular(jetAxis, ueAxis2)

C28_Witness ==
  /\ Axis2Solved
  /\ axisBranch(jetAxis) = "pxZero"
  /\ jetAxis.z # 0
  /\ WellDefined(ueAxis1)
  /\ WellDefined(ueAxis2)
  /\ ueAxis1 # ueAxis2
  /\ Perpendicular(jetAxis, ueAxis1)
  /\ Perpendicular(jetAxis, ueAxis2)

Pz2(p) == p.z * p.z

Pt2(p) == p.x * p.x + p.y * p.y

\* the general branch answers p with the zero vector exactly when pz^2 > px^2 + py^2
ZeroIffSteep(p, v) ==
  /\ IsNeg[quadDelta(p)] <=> Pz2(p) > Pt2(p)
  /\ v = ZeroVec <=> Pz2(p) > Pt2(p)
  /\ ~Eq[quadA(p), D[0]]

\* C29: in the general branch the discriminant is negative, and the zero vector
\* returned, exactly when pz^2 > px^2 + py^2; for pz^2 <= px^2 + py^2 the axis is
\* non-zero, and a == 0 is never true there.
C29_NegativeDiscriminantIffSteep ==
  /\ (Axis1Solved /\ GeneralCase(jetAxis)) => ZeroIffSteep(jetAxis, ueAxis1)
  /\ (Axis2Solved /\ GeneralCase(jetAxis)) => ZeroIffSteep(jetAxis, ueAxis2)

C29_Witness ==
  /\ Axis2Solved
  /\ GeneralCase(jetAxis)
  /\ Pz2(jetAxis) = Pt2(jetAxis)
  /\ ueAxis1 # ZeroVec
  /\ ueAxis1 = ueAxis2
  /\ ~HasNaN(ueAxis1)

\* the draw values for which shouldRejectEvent rejects at percentage k
RejectingValues(k) == {number \in DrawValues : shouldRejectEvent(number, k)}

\* C25: with rejectionPercentage = k, 0 <= k <= 99, shouldRejectEvent rejects
\* for exactly k of the 100 draw values 0..99, and for none of them when k = 0.
C25_RejectsKOfHundred ==
  (fn = "shouldRejectEvent" /\ pc = "decided") =>
    /\ Cardinality(RejectingValues(args.rejectionPercentage)) = args.rejectionPercentage
    /\ args.rejectionPercentage = 0 => ~ret.rejected

\* processData has returned from an event
EventDone == fn = "processData" /\ pc = "await"

\* what the event has added to the bins of number_of_events_data
Delta == [b \in 1..4 |-> registryData[b] - ret.before[b]]

\* the steps of a selected jet, in their order
AllSteps ==
  <<"acceptance", "subtraction", "unfolding", "threshold", "axis", "axis", "constituents",
    "ue">>

\* the jet handled last was selected
LastJetSelected == fn = "processData" /\ trace.jet > 0 /\ trace.steps = AllSteps

OriginalUsed ==
  LastJetSelected =>
    /\ jetAxis = jets[trace.jet].p
    /\ coneRadius = coneRadiusOf(jets[trace.jet].area)
    /\ {l.origin : l \in trace.looked} = {c.origin : c \in jets[trace.jet].constituents}

\* C21: the jets returned by the clustering are never modified: the background
\* is subtracted from a copy, and the axis, the cone radius and the constituents
\* used afterwards are those of the jet as clustered.
C21_JetsReadOnly ==
  /\ []OriginalUsed
  /\ [][pc = "jets" => jets' = jets]_vars

C21_Witness ==
  /\ LastJetSelected
  /\ jets[trace.jet].area * rhoPerp > 0
  /\ trace.steps = AllSteps
  /\ jetAxis = jets[trace.jet].p
  /\ jetPt(jets[trace.jet]) >
       jetMinusBkgPt([pt |-> jetPt(jets[trace.jet]), area |-> jets[trace.jet].area],
                     rhoPerp, rhoMPerp)

EmptyOutcomes ==
  (EventDone /\ ~args.rejected /\ args.sel8) =>
    /\ Len(fjParticles) = 0 =>
         (status = "running" /\ diag = "none" /\ fills = NoFills /\ Delta = <<1, 1, 0, 0>>)
    /\ (Len(fjParticles) > 0 /\ ~isAtLeastOneJetSelected) =>
         (status = "running" /\ fills = NoFills /\ Delta = <<1, 1, 1, 0>>)
    /\ (Len(fjParticles) > 0 /\ isAtLeastOneJetSelected) => Delta = <<1, 1, 1, 1>>

\* C22: an event with no selected particle, or with no selected jet, ends
\* normally: the step that ends it raises no diagnostic, no jet or
\* underlying-event loop has filled anything, and the bins the event has
\* added to tell it from an event with particles, resp. with a selected jet.
C22_EmptyEventEndsNormally ==
  /\ []EmptyOutcomes
  /\ [][(fn' = "processData" /\ pc' = "await") => (log' = log /\ status' = "running")]_vars

C22_Witness ==
  /\ EventDone
  /\ registryData = <<2, 2, 2, 1>>
  /\ ~isAtLeastOneJetSelected
  /\ Len(jets) = 2
  /\ trace.jet = 2
  /\ fills = NoFills
  /\ Delta = <<1, 1, 1, 0>>

\* C23: the bins of number_of_events_data never increase from one stage to the
\* next; an event adds at most 1 to each bin, the last one included when several
\* jets are selected, and nothing to a bin without having added to every earlier one.
C23_CountersNonIncreasing ==
  /\ \A b \in 1..3 : registryData[b] >= registryData[b + 1]
  /\ fn = "processData" =>
       /\ \A b \in 1..4 : Delta[b] \in {0, 1}
       /\ \A b \in 1..3 : Delta[b + 1] <= Delta[b]

C23_Witness ==
  /\ EventDone
  /\ registryData = <<2, 1, 1, 1>>
  /\ Delta = <<1, 1, 1, 1>>
  /\ Len(jets) = 2
  /\ fills.ue = 2 * Len(tracks)

IsPrefix(t, u) == Len(t) <= Len(u) /\ \A i \in 1..Len(t) : t[i] = u[i]

PassesBoth(jet, corrected) ==
  ~outsideAcceptance(jet) /\ Len(corrected) = 1 /\ ~(corrected[1] < minJetPt)

StepsInOrder ==
  (fn = "processData" /\ trace.jet > 0) =>
    /\ IsPrefix(trace.steps, AllSteps)
    /\ outsideAcceptance(jets[trace.jet]) => (trace.steps = <<"acceptance">> /\ trace.draws = 0)
    /\ trace.steps = AllSteps <=> PassesBoth(jets[trace.jet], trace.corrected)
    /\ trace.steps = AllSteps =>
         /\ ueAxis1 = getPerpendicularAxis(jetAxis, 1).u
         /\ ueAxis2 = getPerpendicularAxis(jetAxis, -1).u

\* C26: a jet goes through the acceptance check, the background subtraction, the
\* unfolding, the threshold and the two calls of getPerpendicularAxis in this
\* order; the axes are solved and the loops over constituents and tracks run
\* only for a jet inside the acceptance whose corrected pt reaches minJetPt, and
\* no draw is made for a jet outside the acceptance.
C26_StepsInOrder ==
  /\ []StepsInOrder
  /\ [][(pc = "jets" /\ pc' = "jets") =>
          /\ fills' # fills => PassesBoth(jets'[trace'.jet], trace'.corrected)
          /\ branch' # branch => PassesBoth(jets'[trace'.jet], trace'.corrected)
          /\ rngDraws' # rngDraws => ~outsideAcceptance(jets'[trace'.jet])]_vars

C26_Witness ==
  /\ fn = "processData"
  /\ trace.jet = 2
  /\ outsideAcceptance(jets[1])
  /\ trace.steps = AllSteps
  /\ trace.draws = 1
  /\ rngDraws = 1
  /\ fills.jet = 1

\* C27: every particle handed to the clustering is tagged with the position of
\* its track in the full track collection, rejected tracks counted: for every
\* constituent of a jet the tag is a valid index and tracks.iteratorAt(tag) is
\* the track the particle was made from, a track that passed
\* passedTrackSelectionForJetReconstruction.
C27_TagIsTrackPosition ==
  fn = "processData" =>
    /\ \A i \in DOMAIN fjParticles : fjParticles[i].user_index = fjParticles[i].origin - 1
    /\ \A i \in DOMAIN jets : \A c \in jets[i].constituents :
         /\ iteratorAt(tracks, c.user_index).valid
         /\ iteratorAt(tracks, c.user_index).row = c.origin
         /\ tracks[c.origin].passedForJets
    /\ \A l \in trace.looked : l.track.valid /\ l.track.row = l.origin

C27_Witness ==
  /\ fn = "processData"
  /\ tracks = <<Track(FALSE), Track(TRUE)>>
  /\ trace.looked = {[origin |-> 2, track |-> [valid |-> TRUE, row |-> 2]]}

\* the call of processJetsMCrec has ended
CallEnded == fn = "processJetsMCrec" /\ pc = "returned"

\* C24: when a call of processJetsMCrec has ended, every collision of the batch
\* that passes the event selection has been processed, whether or not an
\* earlier collision of the batch failed it.
C24_EverySelectedCollisionProcessed ==
  CallEnded => processed = {i \in DOMAIN collisions : collisions[i].sel8}

\* C30: the reconstructed pt at which processJetsMCrec fills the response
\* matrix for a jet is the pt with which getCorrectedPt is called for that jet,
\* and the matrix is filled for exactly the jets the correction is applied to.
C30_FillAndLookupAtSamePt ==
  fn = "processJetsMCrec" => responseFills = lookups

====
